---- MODULE Spec2Model ----
(***************************************************************************)
(* State-machine model of the demo components of the React/TypeScript      *)
(* tutorial repository.  Each demo is modelled as its own group of         *)
(* variables with one action per event handler, effect or callback; a      *)
(* specification per demo (SpecDocs, ...) runs the actions of that demo    *)
(* while the other groups stay at their initial values.                    *)
(***************************************************************************)
EXTENDS Integers, Sequences, FiniteSets, TLC

VARIABLES
    \* ---- 19-docs/DocsViewer.tsx
    docsMounted,    \* whether DocsViewer is mounted (its mount effect has run)
    activeDoc,      \* useState 'interview' | 'quick-ref' | 'readme'
    contents,       \* useState { interview, quickRef, readme } : text
    loading,        \* useState { interview, quickRef, readme } : boolean
    fetches,        \* per document: position of its fetch promise chain
    requests,       \* per path: number of fetch() calls issued so far
    consoleErrors,  \* console.error messages, in order
    \* ---- 16-react-18/React18Features.tsx (useSyncExternalStore demo)
    externalValue,      \* `value` in the closure of the module-level externalStore
    externalListeners,  \* `listeners` in the closure of externalStore
    storeDemo,          \* the UseSyncExternalStoreDemo instance, if any, and the count it shows
    storeLeft,          \* history: the count shown by the last instance when it unmounted
    \* ---- unnamed/part_003 (NotificationManager)
    notificationId,     \* module-level `let notificationId`
    notifManager,       \* the NotificationManager instance, if any, and its notifications
    notifTimers,        \* ids whose 3000 ms timer is pending and belongs to the live instance
    staleTimers,        \* ids whose pending timer belongs to an instance that has unmounted
    \* ---- 06-hooks-deep-dive
    activeDemo,         \* HooksDeepDive useState('callback')
    demos,              \* per demo id: the hook state of its instance, or Unmounted
    flickerTimers,      \* pending 100 ms timers started by the live UseEffectVsLayoutEffect
    flickerStale,       \* pending 100 ms timers started by instances that have unmounted
    \* ---- 17-routing/ReactRouterConcepts.tsx (LiveProtectedRoutesDemo)
    user,               \* AuthProviderDemo useState<string | null>(null)
    entries,            \* MemoryRouter history entries; the last one is the current location
    username,           \* LoginPage useState('') : the text of the input
    pendingNav,         \* a navigate() call of the running handler not yet committed, or NoNav
    \* ---- 03-advanced/AdvancedConcepts.tsx and unnamed/part_003 (error boundaries)
    shouldThrow,        \* ErrorBoundaryExample useState(false)
    boundary,           \* per ErrorBoundary instance: its state { hasError, error }
    counts,             \* per boundary with a BuggyCounter child: the child's count
    resetKeys,          \* resetKey1, resetKey2 (MultipleErrorBoundaries) and key (ErrorLoggingExample)
    errors,             \* ErrorLoggingExample useState([]) : the logged error messages
    renderQueue,        \* the boundary whose subtree has a state update to render, or "none"
    uncaught,           \* whether a render error has propagated past every boundary
    \* ---- 09-forms/index.tsx (DebounceDemo / useDebounce)
    searchTerm,         \* DebounceDemo useState('') : the characters of the input
    debouncedValue,     \* useDebounce useState(value) : debouncedSearchTerm
    searchCount,        \* DebounceDemo useState(0) : "API Calls Made"
    timers,             \* pending setTimeout handlers of useDebounce: value and ms remaining
    elapsed,            \* history: ms since the last input change, until the timer fired
    burstTyped,         \* history: characters typed in the current burst, -1 once it deleted
    burstUpdates,       \* history: setDebouncedValue calls since the current burst began
    callsAtStart,       \* history: searchCount when the current burst began
    \* ---- 09-forms/index.tsx (LocalStorageDemo / useLocalStorage)
    localStorage,       \* window.localStorage: per key, the stored text if any
    hooks,              \* per key: the useLocalStorage instance (storedValue), or Unmounted
    storageErrors,      \* the kinds of error console.error has logged
    dirty,              \* history, per key: setValue was called on the current instance
    lastSet,            \* history, per key: the value of the last setValue call
    lastWritten,        \* history, per key: the value of the last setItem that succeeded
    \* ---- 09-forms/index.tsx (PreviousDemo / usePrevious) and unnamed/part_001
    previousDemo,       \* the PreviousDemo instance: count, the ref of usePrevious, prevCount
    propsVsState,       \* the PropsVsStateExample instance: count, userName, userAge
    clicked,            \* history: the demo and control activated by the last step, if any
    \* ---- 17-routing/ReactRouterConcepts.tsx (history of the protected-routes demo)
    cameFrom,           \* history: the protected path whose "Go to Login" led to the login page
    loginLinked,        \* history: the Login nav link was followed on the login page since then
    \* ---- 14-code-splitting/CodeSplittingDemo.tsx
    lazyStatus,         \* per module-level lazy component: the state of its payload
    splitShow,          \* show (BasicLazyExample), showChart, showEditor (MultipleBoundariesExample)
    errorHandling,      \* ErrorHandlingExample: show, hasError, its FailingComponent, its retry timer
    staleLoads,         \* pending loads of FailingComponents that are no longer rendered
    splitCrashed,       \* a render error has left CodeSplittingDemo
    \* ---- 06-hooks-deep-dive/UseStateVsReducer.tsx (counterReducer on its own)
    reducerState,       \* a CounterState that counterReducer has produced
    \* ---- WindowSize (AdvancedPatternsDemo.tsx) and MeasureExample (RefsAndDOM.tsx)
    innerSize,          \* window.innerWidth and window.innerHeight
    resizeListeners,    \* the listeners registered on window for 'resize'
    windowSize,         \* the WindowSize instance, if any: size
    measureExample,     \* the MeasureExample instance, if any: dimensions
    mounts              \* per component: how many instances have been mounted so far

docsVars == <<docsMounted, activeDoc, contents, loading, fetches, requests, consoleErrors>>

storeVars == <<externalValue, externalListeners, storeDemo, storeLeft>>

notifVars == <<notificationId, notifManager, notifTimers, staleTimers>>

hooksVars == <<activeDemo, demos, flickerTimers, flickerStale>>

authVars == <<user, entries, username, pendingNav>>

boundaryVars == <<shouldThrow, boundary, counts, resetKeys, errors, renderQueue, uncaught>>

debounceVars == <<searchTerm, debouncedValue, searchCount, timers, elapsed, burstTyped,
                  burstUpdates, callsAtStart>>

lsVars == <<localStorage, hooks, storageErrors, dirty, lastSet, lastWritten>>

counterVars == <<previousDemo, propsVsState, clicked>>

loginVars == <<cameFrom, loginLinked>>

splitVars == <<lazyStatus, splitShow, errorHandling, staleLoads, splitCrashed>>

reducerVars == <<reducerState>>

resizeVars == <<innerSize, resizeListeners, windowSize, measureExample, mounts>>

vars == <<docsVars, storeVars, notifVars, hooksVars, authVars, boundaryVars, debounceVars, lsVars,
          counterVars, loginVars, splitVars, reducerVars, resizeVars>>

\* A component that is not mounted has no instance and no hook state.
Unmounted == [mounted |-> FALSE]

-----------------------------------------------------------------------------
(* 19-docs/DocsViewer.tsx                                                  *)

\* The keys of the contents / loading state objects.
DocKeys == {"interview", "quickRef", "readme"}

\* The values activeDoc ranges over (the tab ids).
DocTabs == {"interview", "quick-ref", "readme"}

\* The key of the state objects each tab renders (the return statement's three lines).
TabKey(tab) ==
    CASE tab = "interview" -> "interview"
      [] tab = "quick-ref" -> "quickRef"
      [] tab = "readme"    -> "readme"

\* The fixed path each document is fetched from.
DocPath(k) ==
    CASE k = "interview" -> "/INTERVIEW_QUESTIONS.md"
      [] k = "quickRef"  -> "/QUICK_REFERENCE.md"
      [] k = "readme"    -> "/README.md"

DocPaths == {DocPath(k) : k \in DocKeys}

\* The message each catch handler logs.
DocErrorMessage(k) ==
    CASE k = "interview" -> "Error loading interview questions:"
      [] k = "quickRef"  -> "Error loading quick reference:"
      [] k = "readme"    -> "Error loading README:"

\* The loading text each tab passes to renderContent.
LoadingText(k) ==
    CASE k = "interview" -> "Loading interview questions..."
      [] k = "quickRef"  -> "Loading quick reference..."
      [] k = "readme"    -> "Loading README..."

\* Response bodies the server may answer with (an empty file included).
Bodies == {"", "# Title", "plain text"}

\* Positions of one fetch(...).then(res => res.text()).then(...).catch(...) chain.
\*   "none"     fetch not issued
\*   "pending"  fetch issued, response not yet received
\*   "body"     response received, res.text() not yet resolved
\*   "done"     second then-handler has run
\*   "failed"   catch handler has run
FetchStates == {"none", "pending", "body", "done", "failed"}

DocsInit ==
    /\ docsMounted = FALSE
    /\ activeDoc = "interview"
    /\ contents = [k \in DocKeys |-> ""]
    /\ loading = [k \in DocKeys |-> TRUE]
    /\ fetches = [k \in DocKeys |-> "none"]
    /\ requests = [p \in DocPaths |-> 0]
    /\ consoleErrors = <<>>

\* renderContent(content, isLoading, loadingText)
renderContent(content, isLoading, loadingText) ==
    IF isLoading
        THEN [view |-> "loading", text |-> loadingText]
        ELSE [view |-> "markdown", text |-> content]

\* What the docs-content div shows: the renderContent call of the active tab.
DocsContent ==
    LET k == TabKey(activeDoc)
    IN  renderContent(contents[k], loading[k], LoadingText(k))

\* What the viewer would show for document k when its tab is the active one.
DocView(k) == renderContent(contents[k], loading[k], LoadingText(k))

\* useEffect(() => { fetch(...) x3 }, []) : runs once, when the component mounts.
DocsMount ==
    /\ ~docsMounted
    /\ docsMounted' = TRUE
    /\ fetches' = [k \in DocKeys |-> "pending"]
    /\ requests' = [p \in DocPaths |-> requests[p] + 1]
    /\ UNCHANGED <<activeDoc, contents, loading, consoleErrors>>

\* Mutant: the effect re-runs on every tab change (dependency array [activeDoc]).
SetActiveDoc_Refetch(tab) ==
    /\ docsMounted
    /\ activeDoc' = tab
    /\ requests' = [p \in DocPaths |-> requests[p] + 1]
    /\ UNCHANGED <<docsMounted, contents, loading, fetches, consoleErrors>>

\* onClick={() => setActiveDoc(tab)} ; the effect has no dependencies, so a
\* re-render does not run it again.
SetActiveDoc(tab) ==
    /\ docsMounted
    /\ activeDoc' = tab
    /\ UNCHANGED <<docsMounted, contents, loading, fetches, requests, consoleErrors>>

\* fetch(path) fulfils with a response: .then(res => res.text()) starts reading it.
FetchResponse(k) ==
    /\ fetches[k] = "pending"
    /\ fetches' = [fetches EXCEPT ![k] = "body"]
    /\ UNCHANGED <<docsMounted, activeDoc, contents, loading, requests, consoleErrors>>

\* Mutant: the then-handler replaces the loading object instead of spreading prev.
FetchText_ClearsAll(k, text) ==
    /\ fetches[k] = "body"
    /\ contents' = [contents EXCEPT ![k] = text]
    /\ loading' = [j \in DocKeys |-> FALSE]
    /\ fetches' = [fetches EXCEPT ![k] = "done"]
    /\ UNCHANGED <<docsMounted, activeDoc, requests, consoleErrors>>

\* Mutant: the then-handler spreads the `contents` of the render that ran the
\* effect (all empty) instead of the updater's prev.
FetchText_StaleContents(k, text) ==
    /\ fetches[k] = "body"
    /\ contents' = [j \in DocKeys |-> IF j = k THEN text ELSE ""]
    /\ loading' = [loading EXCEPT ![k] = FALSE]
    /\ fetches' = [fetches EXCEPT ![k] = "done"]
    /\ UNCHANGED <<docsMounted, activeDoc, requests, consoleErrors>>

\* res.text() fulfils: .then(text => { setContents(...); setLoading(...) })
FetchText(k, text) ==
    /\ fetches[k] = "body"
    /\ contents' = [contents EXCEPT ![k] = text]
    /\ loading' = [loading EXCEPT ![k] = FALSE]
    /\ fetches' = [fetches EXCEPT ![k] = "done"]
    /\ UNCHANGED <<docsMounted, activeDoc, requests, consoleErrors>>

\* Mutant: the catch handler only logs and leaves the loading flag alone.
FetchFail_KeepsLoading(k) ==
    /\ fetches[k] \in {"pending", "body"}
    /\ consoleErrors' = Append(consoleErrors, DocErrorMessage(k))
    /\ fetches' = [fetches EXCEPT ![k] = "failed"]
    /\ UNCHANGED <<docsMounted, activeDoc, contents, loading, requests>>

\* fetch(path) or res.text() rejects:
\* .catch(err => { console.error(...); setLoading(prev => ({...prev, k: false})) })
FetchFail(k) ==
    /\ fetches[k] \in {"pending", "body"}
    /\ consoleErrors' = Append(consoleErrors, DocErrorMessage(k))
    /\ loading' = [loading EXCEPT ![k] = FALSE]
    /\ fetches' = [fetches EXCEPT ![k] = "failed"]
    /\ UNCHANGED <<docsMounted, activeDoc, contents, requests>>

-----------------------------------------------------------------------------
(* 16-react-18/React18Features.tsx : useSyncExternalStore demo             *)

\* Largest absolute count explored.
MaxCount == 2

\* const externalStore = createStore(0), evaluated once when the module loads.
StoreInit ==
    /\ externalValue = 0
    /\ externalListeners = {}
    /\ storeDemo = Unmounted
    /\ storeLeft = 0

\* getSnapshot: () => value
getSnapshot == externalValue

\* What a listener call does to the demo: useSyncExternalStore re-reads the
\* snapshot and the instance re-renders with it.
Notify(listeners, snapshot) ==
    IF "demo" \in listeners THEN [mounted |-> TRUE, value |-> snapshot] ELSE storeDemo

\* Mutant: the store is created per instance (createStore(0) inside the component).
StoreDemoMount_FreshStore ==
    /\ ~storeDemo.mounted
    /\ externalValue' = 0
    /\ externalListeners' = {"demo"}
    /\ storeDemo' = [mounted |-> TRUE, value |-> 0]
    /\ UNCHANGED storeLeft

\* UseSyncExternalStoreDemo mounts: useSyncExternalStore(subscribe, getSnapshot)
\* reads the snapshot of the module-level store and subscribes to it.
StoreDemoMount ==
    /\ ~storeDemo.mounted
    /\ externalListeners' = externalListeners \cup {"demo"}
    /\ storeDemo' = [mounted |-> TRUE, value |-> getSnapshot]
    /\ UNCHANGED <<externalValue, storeLeft>>

\* The demo unmounts: the function subscribe returned deletes the listener.
\* The store itself is module-level and is not touched.
StoreDemoUnmount ==
    /\ storeDemo.mounted
    /\ externalListeners' = externalListeners \ {"demo"}
    /\ storeLeft' = storeDemo.value
    /\ storeDemo' = Unmounted
    /\ UNCHANGED externalValue

\* onClick={() => externalStore.increment()} : value++ ; listeners.forEach(l => l())
StoreIncrement ==
    /\ storeDemo.mounted
    /\ externalValue < MaxCount
    /\ externalValue' = externalValue + 1
    /\ storeDemo' = Notify(externalListeners, externalValue + 1)
    /\ UNCHANGED <<externalListeners, storeLeft>>

\* onClick={() => externalStore.decrement()} : value-- ; listeners.forEach(l => l())
StoreDecrement ==
    /\ storeDemo.mounted
    /\ externalValue > -MaxCount
    /\ externalValue' = externalValue - 1
    /\ storeDemo' = Notify(externalListeners, externalValue - 1)
    /\ UNCHANGED <<externalListeners, storeLeft>>

-----------------------------------------------------------------------------
(* unnamed/part_003 : NotificationManager                                  *)

\* Largest number of notifications ever added in one run.
MaxNotifications == 3

NotificationTypes == {"success", "error", "info"}

\* The message each button passes with its type.
NotificationMessage(type) ==
    CASE type = "success" -> "Success!"
      [] type = "error"   -> "Error occurred"
      [] type = "info"    -> "Just FYI"

\* let notificationId = 0, evaluated once when the module loads.
NotifInit ==
    /\ notificationId = 0
    /\ notifManager = Unmounted
    /\ notifTimers = {}
    /\ staleTimers = {}

\* prev.filter(n => n.id !== id)
RECURSIVE FilterOutId(_, _)
FilterOutId(list, id) ==
    IF list = <<>> THEN <<>>
    ELSE IF Head(list).id = id THEN FilterOutId(Tail(list), id)
    ELSE <<Head(list)>> \o FilterOutId(Tail(list), id)

\* NotificationManager mounts: useState<Notification[]>([])
NotifMount ==
    /\ ~notifManager.mounted
    /\ notifManager' = [mounted |-> TRUE, notifications |-> <<>>]
    /\ UNCHANGED <<notificationId, notifTimers, staleTimers>>

\* NotificationManager unmounts: its state is discarded; the timers it started
\* are not cleared and stay pending.
NotifUnmount ==
    /\ notifManager.mounted
    /\ notifManager' = Unmounted
    /\ staleTimers' = staleTimers \cup notifTimers
    /\ notifTimers' = {}
    /\ UNCHANGED notificationId

\* addNotification(message, type)
addNotification(type) ==
    /\ notifManager.mounted
    /\ notificationId < MaxNotifications
    /\ notificationId' = notificationId + 1
    /\ notifManager' = [notifManager EXCEPT !.notifications =
            Append(@, [id |-> notificationId, message |-> NotificationMessage(type), type |-> type])]
    /\ notifTimers' = notifTimers \cup {notificationId}
    /\ UNCHANGED staleTimers

\* The setTimeout callback of a live instance: setNotifications(prev => prev.filter(...))
NotifTimeout(id) ==
    /\ id \in notifTimers
    /\ notifManager' = [notifManager EXCEPT !.notifications = FilterOutId(@, id)]
    /\ notifTimers' = notifTimers \ {id}
    /\ UNCHANGED <<notificationId, staleTimers>>

\* The setTimeout callback of an instance that has unmounted: the state update
\* addresses the discarded instance and changes nothing.
StaleTimeout(id) ==
    /\ id \in staleTimers
    /\ staleTimers' = staleTimers \ {id}
    /\ UNCHANGED <<notificationId, notifManager, notifTimers>>

-----------------------------------------------------------------------------
(* 06-hooks-deep-dive : HooksDeepDive and its four demos                   *)

\* Longest reducer history explored.
MaxHistory == 3

\* Most items added to UseMemoDemo's list.
MaxItemsAdded == 2

\* Most 100 ms flicker timers pending at once.
MaxTimers == 2

\* The ids of the `demos` table of HooksDeepDive.
DemoIds == {"callback", "memo", "effect-layout", "state-reducer"}

\* Values typed into the step input: Number(e.target.value).
StepInputs == {-1, 0, 1, 2}

\* UseCallbackDemo: useState(0), useState(0)
CallbackInitial == [mounted |-> TRUE, count |-> 0, otherState |-> 0]

\* UseMemoDemo: useState(0), useState([1, 2, 3, 4, 5]), useState(false)
MemoInitial == [mounted |-> TRUE, count |-> 0, items |-> <<1, 2, 3, 4, 5>>, darkMode |-> FALSE]

\* UseEffectVsLayoutEffect: useState(0), useState(false), useState(false)
EffectInitial == [mounted |-> TRUE, position |-> 0, showFlicker |-> FALSE, useLayout |-> FALSE]

\* UseStateVsReducer: useState(0), useReducer(counterReducer, {count: 0, step: 1, history: [0]})
ReducerInitial ==
    [mounted |-> TRUE, simpleCount |-> 0,
     state |-> [count |-> 0, step |-> 1, history |-> <<0>>]]

\* The state a demo's instance has when it mounts.
InitialState(id) ==
    CASE id = "callback"      -> CallbackInitial
      [] id = "memo"          -> MemoInitial
      [] id = "effect-layout" -> EffectInitial
      [] id = "state-reducer" -> ReducerInitial

\* Mutant: undo drops the last history entry and leaves count as it is.
counterReducer_UndoKeepsCount(state, action) ==
    CASE action.type = "increment" ->
            [state EXCEPT !.count = state.count + state.step,
                          !.history = Append(state.history, state.count + state.step)]
      [] action.type = "decrement" ->
            [state EXCEPT !.count = state.count - state.step,
                          !.history = Append(state.history, state.count - state.step)]
      [] action.type = "setStep" ->
            [state EXCEPT !.step = action.payload]
      [] action.type = "reset" ->
            [count |-> 0, step |-> 1, history |-> <<0>>]
      [] action.type = "undo" ->
            IF Len(state.history) > 1
                THEN [state EXCEPT !.history = SubSeq(state.history, 1, Len(state.history) - 1)]
                ELSE state
      [] OTHER -> state

\* counterReducer(state, action)
counterReducer(state, action) ==
    CASE action.type = "increment" ->
            [state EXCEPT !.count = state.count + state.step,
                          !.history = Append(state.history, state.count + state.step)]
      [] action.type = "decrement" ->
            [state EXCEPT !.count = state.count - state.step,
                          !.history = Append(state.history, state.count - state.step)]
      [] action.type = "setStep" ->
            [state EXCEPT !.step = action.payload]
      [] action.type = "reset" ->
            [count |-> 0, step |-> 1, history |-> <<0>>]
      [] action.type = "undo" ->
            IF Len(state.history) > 1
                THEN LET newHistory == SubSeq(state.history, 1, Len(state.history) - 1)
                     IN  [state EXCEPT !.count = newHistory[Len(newHistory)],
                                       !.history = newHistory]
                ELSE state
      [] OTHER -> state

\* HooksDeepDive mounts with activeDemo = 'callback', so UseCallbackDemo is mounted.
HooksInit ==
    /\ activeDemo = "callback"
    /\ demos = [id \in DemoIds |-> IF id = "callback" THEN InitialState(id) ELSE Unmounted]
    /\ flickerTimers = 0
    /\ flickerStale = 0

\* Mutant: every demo stays mounted and is only hidden while it is not selected.
SelectDemo_KeepsMounted(id) ==
    /\ activeDemo' = id
    /\ demos' = [demos EXCEPT ![id] = IF demos[id].mounted THEN demos[id] ELSE InitialState(id)]
    /\ UNCHANGED <<flickerTimers, flickerStale>>

\* onClick={() => setActiveDemo(demo.id)} : <ActiveDemo /> becomes another
\* component type, so the previous demo unmounts and the selected one mounts.
\* Selecting the demo that is already active changes nothing.
SelectDemo(id) ==
    /\ activeDemo' = id
    /\ IF id = activeDemo
          THEN UNCHANGED <<demos, flickerTimers, flickerStale>>
          ELSE /\ demos' = [d \in DemoIds |-> IF d = id THEN InitialState(d) ELSE Unmounted]
               /\ flickerStale' = flickerStale + flickerTimers
               /\ flickerTimers' = 0

\* UseCallbackDemo handleIncrement: setCount(c => c + 1)
CallbackIncrement ==
    /\ activeDemo = "callback"
    /\ demos["callback"].count < MaxCount
    /\ demos' = [demos EXCEPT !["callback"].count = @ + 1]
    /\ UNCHANGED <<activeDemo, flickerTimers, flickerStale>>

\* UseCallbackDemo: setOtherState(s => s + 1)
CallbackOther ==
    /\ activeDemo = "callback"
    /\ demos["callback"].otherState < MaxCount
    /\ demos' = [demos EXCEPT !["callback"].otherState = @ + 1]
    /\ UNCHANGED <<activeDemo, flickerTimers, flickerStale>>

\* UseMemoDemo: setCount(count + 1)
MemoIncrement ==
    /\ activeDemo = "memo"
    /\ demos["memo"].count < MaxCount
    /\ demos' = [demos EXCEPT !["memo"].count = @ + 1]
    /\ UNCHANGED <<activeDemo, flickerTimers, flickerStale>>

\* UseMemoDemo: setItems([...items, items.length + 1])
MemoAddItem ==
    /\ activeDemo = "memo"
    /\ Len(demos["memo"].items) < Len(MemoInitial.items) + MaxItemsAdded
    /\ demos' = [demos EXCEPT !["memo"].items = Append(@, Len(@) + 1)]
    /\ UNCHANGED <<activeDemo, flickerTimers, flickerStale>>

\* UseMemoDemo: setDarkMode(!darkMode)
MemoToggleTheme ==
    /\ activeDemo = "memo"
    /\ demos' = [demos EXCEPT !["memo"].darkMode = ~@]
    /\ UNCHANGED <<activeDemo, flickerTimers, flickerStale>>

\* UseEffectVsLayoutEffect demonstrateEffect: setPosition(0); setShowFlicker(true);
\* setTimeout(..., 100).  When showFlicker changes, the effect (or the layout
\* effect, by useLayout) runs after the render and sets position to 200.
demonstrateEffect ==
    /\ activeDemo = "effect-layout"
    /\ flickerTimers + flickerStale < MaxTimers
    /\ demos' = [demos EXCEPT !["effect-layout"].position = IF ~demos["effect-layout"].showFlicker THEN 200 ELSE 0,
                              !["effect-layout"].showFlicker = TRUE]
    /\ flickerTimers' = flickerTimers + 1
    /\ UNCHANGED <<activeDemo, flickerStale>>

\* The timer of the live instance fires: setShowFlicker(false); both effects
\* re-run with their conditions false.
FlickerTimeout ==
    /\ flickerTimers > 0
    /\ flickerTimers' = flickerTimers - 1
    /\ demos' = [demos EXCEPT !["effect-layout"].showFlicker = FALSE]
    /\ UNCHANGED <<activeDemo, flickerStale>>

\* A timer of an unmounted instance fires: its setShowFlicker addresses the
\* discarded instance and changes nothing.
FlickerStaleTimeout ==
    /\ flickerStale > 0
    /\ flickerStale' = flickerStale - 1
    /\ UNCHANGED <<activeDemo, demos, flickerTimers>>

\* UseEffectVsLayoutEffect: setUseLayout(e.target.checked); when useLayout
\* changes both effects re-run, and the enabled one sets position to 200 while
\* showFlicker is true.
SetUseLayout(checked) ==
    /\ activeDemo = "effect-layout"
    /\ LET d == demos["effect-layout"]
       IN  demos' = [demos EXCEPT !["effect-layout"].useLayout = checked,
                                 !["effect-layout"].position =
                                    IF checked # d.useLayout /\ d.showFlicker THEN 200 ELSE @]
    /\ UNCHANGED <<activeDemo, flickerTimers, flickerStale>>

\* UseStateVsReducer: setSimpleCount(simpleCount + 1)
SimpleIncrement ==
    /\ activeDemo = "state-reducer"
    /\ demos["state-reducer"].simpleCount < MaxCount
    /\ demos' = [demos EXCEPT !["state-reducer"].simpleCount = @ + 1]
    /\ UNCHANGED <<activeDemo, flickerTimers, flickerStale>>

\* UseStateVsReducer: setSimpleCount(simpleCount - 1)
SimpleDecrement ==
    /\ activeDemo = "state-reducer"
    /\ demos["state-reducer"].simpleCount > -MaxCount
    /\ demos' = [demos EXCEPT !["state-reducer"].simpleCount = @ - 1]
    /\ UNCHANGED <<activeDemo, flickerTimers, flickerStale>>

\* UseStateVsReducer: setSimpleCount(0)
SimpleReset ==
    /\ activeDemo = "state-reducer"
    /\ demos' = [demos EXCEPT !["state-reducer"].simpleCount = 0]
    /\ UNCHANGED <<activeDemo, flickerTimers, flickerStale>>

\* The actions the reducer card can dispatch: the four buttons (Undo is
\* disabled while history.length <= 1) and the step input.
Dispatchable(state) ==
    {[type |-> t] : t \in {"increment", "decrement", "reset"}}
        \cup (IF Len(state.history) <= 1 THEN {} ELSE {[type |-> "undo"]})
        \cup {[type |-> "setStep", payload |-> n] : n \in StepInputs}

\* UseStateVsReducer: dispatch(action)
Dispatch(action) ==
    /\ activeDemo = "state-reducer"
    /\ action \in Dispatchable(demos["state-reducer"].state)
    /\ action.type \in {"increment", "decrement"} =>
            Len(demos["state-reducer"].state.history) < MaxHistory
    /\ demos' = [demos EXCEPT !["state-reducer"].state = counterReducer(@, action)]
    /\ UNCHANGED <<activeDemo, flickerTimers, flickerStale>>

\* Every action a dispatch can carry.
CounterActions ==
    {[type |-> t] : t \in {"increment", "decrement", "reset", "undo"}}
        \cup {[type |-> "setStep", payload |-> n] : n \in StepInputs}

\* The reducer on its own, from the initial state given to useReducer.
ReducerInit == reducerState = ReducerInitial.state

\* One application of the reducer to any action of its type, also to the ones
\* the card cannot dispatch (undo with a history of one entry).
ReducerStep(action) ==
    /\ action.type \in {"increment", "decrement"} => Len(reducerState.history) < MaxHistory
    /\ reducerState' = counterReducer(reducerState, action)

-----------------------------------------------------------------------------
(* 17-routing/ReactRouterConcepts.tsx : LiveProtectedRoutesDemo            *)

\* Most history entries of the MemoryRouter explored.
MaxEntries == 5

\* JavaScript null, and a string value as the sequence of its characters.
Null == [null |-> TRUE]
Str(chars) == [null |-> FALSE, chars |-> chars]

\* JavaScript truthiness of a string | null value: null and '' are falsy.
Truthy(v) == ~v.null /\ v.chars # <<>>

\* String.prototype.trim on a sequence of characters.
RECURSIVE TrimStart(_)
TrimStart(cs) ==
    IF cs # <<>> /\ Head(cs) = " " THEN TrimStart(Tail(cs)) ELSE cs

RECURSIVE TrimEnd(_)
TrimEnd(cs) ==
    IF cs # <<>> /\ cs[Len(cs)] = " " THEN TrimEnd(SubSeq(cs, 1, Len(cs) - 1)) ELSE cs

Trim(cs) == TrimEnd(TrimStart(cs))

\* Texts typed into the login input.
UsernameInputs == {<<>>, <<" ">>, <<"a">>, <<" ", "b", " ">>}

\* The paths of the <Routes> table, and the protected ones.
RoutePaths == {"/", "/login", "/admin", "/profile"}
ProtectedPaths == {"/admin", "/profile"}

NoNav == [pending |-> FALSE]

\* The current location of the router.
location == entries[Len(entries)]

\* <MemoryRouter initialEntries={['/']}>, useState(null), useState('')
AuthInit ==
    /\ user = Null
    /\ entries = << [pathname |-> "/", state |-> Null] >>
    /\ username = <<>>
    /\ pendingNav = NoNav

\* Mutant: the guard is missing and the children are always rendered.
ProtectedRoute_NoGuard(u, children) == children

\* ProtectedRoute({ children }) : what it renders for the auth state u.
ProtectedRoute(u, children) ==
    IF ~Truthy(u) THEN "AccessDenied" ELSE children

\* The element <Routes> renders for a pathname.
RouteElement(pathname, u) ==
    CASE pathname = "/"        -> "PublicHome"
      [] pathname = "/login"   -> "LoginPage"
      [] pathname = "/admin"   -> ProtectedRoute(u, "AdminPage")
      [] pathname = "/profile" -> ProtectedRoute(u, "ProfilePage")

\* What the demo shows in the current state.
Shown == RouteElement(location.pathname, user)

\* const from = (location.state as any)?.from || '/admin'
From == IF location.state.null THEN "/admin" ELSE location.state.from

\* The history after navigating to `to` with `state`: push, or replace the
\* current entry.
Navigated(to, state, replace) ==
    IF replace
        THEN [entries EXCEPT ![Len(entries)] = [pathname |-> to, state |-> state]]
        ELSE Append(entries, [pathname |-> to, state |-> state])

\* LoginPage keeps its username state while it stays mounted, that is while
\* the pathname stays /login.
UsernameAfter(to) == IF to = "/login" /\ location.pathname = "/login" THEN username ELSE <<>>

\* Room for one more history entry.
CanPush == Len(entries) < MaxEntries

\* <Link to=...> of the nav bar; a Link to the current path replaces the entry.
ClickNavLink(to) ==
    /\ pendingNav = NoNav
    /\ to = location.pathname \/ CanPush
    /\ entries' = Navigated(to, Null, to = location.pathname)
    /\ username' = UsernameAfter(to)
    /\ UNCHANGED <<user, pendingNav>>

\* <Link to="/login" state={{ from: location.pathname }}> of the Access Denied view.
ClickGoToLogin ==
    /\ pendingNav = NoNav
    /\ Shown = "AccessDenied"
    /\ CanPush
    /\ entries' = Navigated("/login", [null |-> FALSE, from |-> location.pathname], FALSE)
    /\ username' = UsernameAfter("/login")
    /\ UNCHANGED <<user, pendingNav>>

\* onChange={(e) => setUsername(e.target.value)} of the login form.
TypeUsername(text) ==
    /\ pendingNav = NoNav
    /\ Shown = "LoginPage" /\ ~Truthy(user)
    /\ username' = text
    /\ UNCHANGED <<user, entries, pendingNav>>

\* Mutant: the handler ignores `from` and always navigates to /admin.
handleLogin_AlwaysAdmin ==
    /\ pendingNav = NoNav
    /\ Shown = "LoginPage" /\ ~Truthy(user)
    /\ IF Trim(username) # <<>>
          THEN /\ user' = Str(Trim(username))
               /\ pendingNav' = [pending |-> TRUE, to |-> "/admin", replace |-> TRUE]
          ELSE UNCHANGED <<user, pendingNav>>
    /\ UNCHANGED <<entries, username>>

\* handleLogin: if (username.trim()) { login(username.trim()); navigate(from, { replace: true }) }
handleLogin ==
    /\ pendingNav = NoNav
    /\ Shown = "LoginPage" /\ ~Truthy(user)
    /\ IF Trim(username) # <<>>
          THEN /\ user' = Str(Trim(username))
               /\ pendingNav' = [pending |-> TRUE, to |-> From, replace |-> TRUE]
          ELSE UNCHANGED <<user, pendingNav>>
    /\ UNCHANGED <<entries, username>>

\* The "Continue to {from}" button of the already-logged-in view: navigate(from)
ClickContinue ==
    /\ pendingNav = NoNav
    /\ Shown = "LoginPage" /\ Truthy(user)
    /\ CanPush
    /\ pendingNav' = [pending |-> TRUE, to |-> From, replace |-> FALSE]
    /\ UNCHANGED <<user, entries, username>>

\* AdminPage handleLogout: logout(); navigate('/login')
AdminLogout ==
    /\ pendingNav = NoNav
    /\ Shown = "AdminPage"
    /\ CanPush
    /\ user' = Null
    /\ pendingNav' = [pending |-> TRUE, to |-> "/login", replace |-> FALSE]
    /\ UNCHANGED <<entries, username>>

\* ProfilePage handleLogout: logout(); navigate('/')
ProfileLogout ==
    /\ pendingNav = NoNav
    /\ Shown = "ProfilePage"
    /\ CanPush
    /\ user' = Null
    /\ pendingNav' = [pending |-> TRUE, to |-> "/", replace |-> FALSE]
    /\ UNCHANGED <<entries, username>>

\* The router commits the navigation the handler asked for.  The auth state
\* set by the same handler may be rendered before or together with it; the
\* state in between is the "before".
CommitNavigation ==
    /\ pendingNav # NoNav
    /\ entries' = Navigated(pendingNav.to, Null, pendingNav.replace)
    /\ username' = UsernameAfter(pendingNav.to)
    /\ pendingNav' = NoNav
    /\ UNCHANGED user

-----------------------------------------------------------------------------
(* 03-advanced/AdvancedConcepts.tsx (ErrorBoundaryExample) and             *)
(* unnamed/part_003 (MultipleErrorBoundaries, ErrorLoggingExample)         *)

\* Most resets (key increments) of one keyed boundary explored.
MaxResets == 1

\* BuggyCounter: if (count === 5) throw
CrashCount == 5

\* The ErrorBoundary instances: the one of ErrorBoundaryExample, the two of
\* MultipleErrorBoundaries and the one of ErrorLoggingExample.
Boundaries == {"example", "multi1", "multi2", "logging"}

\* The boundaries whose child is a BuggyCounter; they are the keyed ones.
CounterBoundaries == {"multi1", "multi2", "logging"}

\* this.state = { hasError: false, error: null }
BoundaryInitial == [hasError |-> FALSE, error |-> "null"]

\* static getDerivedStateFromError(error)
getDerivedStateFromError(error) == [hasError |-> TRUE, error |-> error]

BoundaryInit ==
    /\ shouldThrow = FALSE
    /\ boundary = [b \in Boundaries |-> BoundaryInitial]
    /\ counts = [b \in CounterBoundaries |-> 0]
    /\ resetKeys = [b \in CounterBoundaries |-> 0]
    /\ errors = <<>>
    /\ renderQueue = "none"
    /\ uncaught = FALSE

\* Whether the boundary passes its own fallback prop.
HasFallbackProp(b) == b \in CounterBoundaries

\* ErrorBoundary render(): the fallback (the prop, or the default one with the
\* message and Try Again) while hasError, the children otherwise.
BoundaryRender(b) ==
    IF boundary[b].hasError
        THEN IF HasFallbackProp(b)
                THEN [view |-> "fallback", of |-> b]
                ELSE [view |-> "default-fallback", message |-> boundary[b].error]
        ELSE [view |-> "children", of |-> b]

\* Whether rendering the children of boundary b throws, and the message:
\* BuggyComponent throws while shouldThrow, BuggyCounter when count === 5.
ChildThrows(b) ==
    /\ ~boundary[b].hasError
    /\ IF b = "example" THEN shouldThrow ELSE counts[b] = CrashCount

ChildError(b) == IF b = "example" THEN "I crashed!" ELSE "Counter crashed at 5!"

\* onClick={() => setShouldThrow(!shouldThrow)}
ToggleError ==
    /\ renderQueue = "none"
    /\ shouldThrow' = ~shouldThrow
    /\ renderQueue' = "example"
    /\ UNCHANGED <<boundary, counts, resetKeys, errors, uncaught>>

\* Try Again of the default fallback: this.setState({ hasError: false, error: null })
TryAgain ==
    /\ renderQueue = "none"
    /\ BoundaryRender("example").view = "default-fallback"
    /\ boundary' = [boundary EXCEPT !["example"] = BoundaryInitial]
    /\ renderQueue' = "example"
    /\ UNCHANGED <<shouldThrow, counts, resetKeys, errors, uncaught>>

\* BuggyCounter: onClick={() => setCount(count + 1)}
CounterIncrement(b) ==
    /\ renderQueue = "none"
    /\ BoundaryRender(b).view = "children"
    /\ counts' = [counts EXCEPT ![b] = @ + 1]
    /\ renderQueue' = b
    /\ UNCHANGED <<shouldThrow, boundary, resetKeys, errors, uncaught>>

\* Reset of a keyed boundary's fallback: setResetKey(k => k + 1) ; the new key
\* remounts the boundary and its BuggyCounter.
ResetBoundary(b) ==
    /\ renderQueue = "none"
    /\ BoundaryRender(b).view = "fallback"
    /\ resetKeys[b] < MaxResets
    /\ resetKeys' = [resetKeys EXCEPT ![b] = @ + 1]
    /\ boundary' = [boundary EXCEPT ![b] = BoundaryInitial]
    /\ counts' = [counts EXCEPT ![b] = 0]
    /\ renderQueue' = b
    /\ UNCHANGED <<shouldThrow, errors, uncaught>>

\* Clear Log: setErrors([])
ClearLog ==
    /\ renderQueue = "none"
    /\ Len(errors) > 0
    /\ errors' = <<>>
    /\ UNCHANGED <<shouldThrow, boundary, counts, resetKeys, renderQueue, uncaught>>

\* componentDidCatch: console.error(...); this.props.onError?.(error, errorInfo).
\* Only ErrorLoggingExample passes onError (handleError appends to errors).
componentDidCatch(b, error) ==
    IF b = "logging" THEN Append(errors, error) ELSE errors

\* Mutant: no boundary catches (getDerivedStateFromError is missing), so the
\* error reaches the root.
RenderSubtree_Propagates(b) ==
    /\ renderQueue = b
    /\ renderQueue' = "none"
    /\ uncaught' = (uncaught \/ ChildThrows(b))
    /\ UNCHANGED <<shouldThrow, boundary, counts, resetKeys, errors>>

\* React renders the subtree of boundary b.  If a child throws, the boundary
\* takes the state getDerivedStateFromError returns, its children unmount
\* (a BuggyCounter loses its count) and componentDidCatch runs.
RenderSubtree(b) ==
    /\ renderQueue = b
    /\ renderQueue' = "none"
    /\ IF ChildThrows(b)
          THEN /\ boundary' = [boundary EXCEPT ![b] = getDerivedStateFromError(ChildError(b))]
               /\ counts' = [c \in CounterBoundaries |-> IF c = b THEN 0 ELSE counts[c]]
               /\ errors' = componentDidCatch(b, ChildError(b))
          ELSE UNCHANGED <<boundary, counts, errors>>
    /\ UNCHANGED <<shouldThrow, resetKeys, uncaught>>

-----------------------------------------------------------------------------
(* 09-forms/index.tsx : useDebounce and DebounceDemo                       *)

\* useDebounce(searchTerm, 500)
Delay == 500

\* Longest text typed into the search input.
MaxWordLen == 5

\* Most searches counted in one run.
MaxCalls == 2

\* Characters typed into the search input.
Alphabet == {"a", "b"}

\* Amounts of time (ms) that may pass between two events, besides exactly
\* the time left until the pending timer is due.
Pauses == {100, 250}

\* DebounceDemo mounts: useState(''), useState(value), useState(0); the mount
\* effect of useDebounce starts the first timer, the mount effect of
\* DebounceDemo finds debouncedSearchTerm empty.
DebounceInit ==
    /\ searchTerm = <<>>
    /\ debouncedValue = <<>>
    /\ searchCount = 0
    /\ timers = {[value |-> <<>>, remaining |-> Delay]}
    /\ elapsed = 0
    /\ burstTyped = 0
    /\ burstUpdates = 0
    /\ callsAtStart = 0

\* Mutant: the effect of useDebounce returns no cleanup, so earlier timers
\* stay pending.
ArmTimer_NoCleanup(value) == timers \cup {[value |-> value, remaining |-> Delay]}

\* The effect of useDebounce after a render with a new value: the cleanup of
\* the previous run clears its timer, then setTimeout(..., delay).
ArmTimer(value) == {[value |-> value, remaining |-> Delay]}

\* onChange={(e) => setSearchTerm(e.target.value)} with the new text `term`.
\* `typed` tells whether the change typed a character (rather than deleting).
SetSearchTerm(term, typed) ==
    /\ searchCount < MaxCalls
    /\ searchTerm' = term
    /\ timers' = ArmTimer(term)
    /\ elapsed' = 0
    /\ IF timers = {}
          THEN /\ burstTyped' = IF typed THEN 1 ELSE -1
               /\ burstUpdates' = 0
               /\ callsAtStart' = searchCount
          ELSE /\ burstTyped' = IF typed /\ burstTyped >= 0 THEN burstTyped + 1 ELSE -1
               /\ UNCHANGED <<burstUpdates, callsAtStart>>
    /\ UNCHANGED <<debouncedValue, searchCount>>

\* The user types one more character.
TypeChar(c) ==
    /\ Len(searchTerm) < MaxWordLen
    /\ SetSearchTerm(Append(searchTerm, c), TRUE)

\* The user deletes the last character.
Backspace ==
    /\ Len(searchTerm) > 0
    /\ SetSearchTerm(SubSeq(searchTerm, 1, Len(searchTerm) - 1), FALSE)

\* The least time left among the pending timers.
NextDue == CHOOSE r \in {t.remaining : t \in timers} :
                \A t \in timers : r <= t.remaining

\* Time passes without an event; a timer that is due runs first.
Wait(ms) ==
    /\ timers # {}
    /\ ms > 0
    /\ ms <= NextDue
    /\ timers' = {[t EXCEPT !.remaining = @ - ms] : t \in timers}
    /\ elapsed' = elapsed + ms
    /\ UNCHANGED <<searchTerm, debouncedValue, searchCount, burstTyped, burstUpdates, callsAtStart>>

\* DebounceDemo's effect on [debouncedSearchTerm]: it runs when the value has
\* changed and counts a search if the new value is not empty.
SearchCountAfter(old, new) ==
    IF new # old /\ new # <<>> THEN searchCount + 1 ELSE searchCount

\* The setTimeout handler runs: setDebouncedValue(value)
TimerFires(t) ==
    /\ t \in timers
    /\ t.remaining = 0
    /\ timers' = timers \ {t}
    /\ debouncedValue' = t.value
    /\ searchCount' = SearchCountAfter(debouncedValue, t.value)
    /\ burstUpdates' = burstUpdates + 1
    /\ UNCHANGED <<searchTerm, elapsed, burstTyped, callsAtStart>>

\* Every text the input can hold.
Words == UNION {[1..n -> Alphabet] : n \in 0..MaxWordLen}

-----------------------------------------------------------------------------
(* 09-forms/index.tsx : useLocalStorage and LocalStorageDemo               *)

\* The keys LocalStorageDemo uses.
StorageKeys == {"user-name", "theme"}

\* The initialValue argument of each useLocalStorage call.
InitialValue(key) == IF key = "user-name" THEN <<>> ELSE <<"light">>

\* The values each setter is called with: texts of the name input, options
\* of the theme select.  A value is the sequence of its characters.
Values(key) ==
    IF key = "user-name" THEN {<<>>, <<"a">>, <<"a", "b">>}
                         ELSE {<<"light">>, <<"dark">>}

Quote == "\""

\* JSON.stringify of a string: the text between double quotes.
JSONstringify(v) == <<Quote>> \o v \o <<Quote>>

\* JSON.parse of a stored text: the string between the quotes, or a SyntaxError.
JSONparse(text) ==
    IF /\ Len(text) >= 2
       /\ text[1] = Quote
       /\ text[Len(text)] = Quote
       /\ \A i \in 2..(Len(text) - 1) : text[i] # Quote
        THEN [ok |-> TRUE, value |-> SubSeq(text, 2, Len(text) - 1)]
        ELSE [ok |-> FALSE]

NoItem == [present |-> FALSE]
Item(text) == [present |-> TRUE, text |-> text]

\* What a key may hold when the page loads: nothing, an empty text, a text
\* that is not JSON, or a value written in an earlier session.
StoredAtLoad(key) ==
    {NoItem, Item(<<>>), Item(<<"x">>)} \cup {Item(JSONstringify(v)) : v \in Values(key)}

Never == [some |-> FALSE]

LocalStorageInit ==
    /\ localStorage = [key \in StorageKeys |-> NoItem]
    /\ hooks = [key \in StorageKeys |-> Unmounted]
    /\ storageErrors = {}
    /\ dirty = [key \in StorageKeys |-> FALSE]
    /\ lastSet = [key \in StorageKeys |-> Never]
    /\ lastWritten = [key \in StorageKeys |-> Never]

\* The page loads with whatever the storage holds.
LocalStorageInitAny ==
    /\ localStorage \in [StorageKeys -> UNION {StoredAtLoad(key) : key \in StorageKeys}]
    /\ \A key \in StorageKeys : localStorage[key] \in StoredAtLoad(key)
    /\ hooks = [key \in StorageKeys |-> Unmounted]
    /\ storageErrors = {}
    /\ dirty = [key \in StorageKeys |-> FALSE]
    /\ lastSet = [key \in StorageKeys |-> Never]
    /\ lastWritten = [key \in StorageKeys |-> Never]

\* Whether the useState initialiser's JSON.parse throws for this key.
InitialiserThrows(key) ==
    LET item == localStorage[key]
    IN  item.present /\ item.text # <<>> /\ ~JSONparse(item.text).ok

\* Mutant: the initialiser does not read the storage.
InitialStoredValue_IgnoresStorage(key) == InitialValue(key)

\* The useState initialiser: item ? JSON.parse(item) : initialValue, and
\* initialValue when that throws.
InitialStoredValue(key) ==
    LET item == localStorage[key]
    IN  IF item.present /\ item.text # <<>>
            THEN IF JSONparse(item.text).ok
                    THEN JSONparse(item.text).value
                    ELSE InitialValue(key)
            ELSE InitialValue(key)

\* LocalStorageDemo mounts: both useLocalStorage calls initialise.
LocalStorageMount ==
    /\ \A key \in StorageKeys : ~hooks[key].mounted
    /\ hooks' = [key \in StorageKeys |-> [mounted |-> TRUE, storedValue |-> InitialStoredValue(key)]]
    /\ storageErrors' = storageErrors \cup
            (IF \E key \in StorageKeys : InitialiserThrows(key) THEN {"SyntaxError"} ELSE {})
    /\ dirty' = [key \in StorageKeys |-> FALSE]
    /\ UNCHANGED <<localStorage, lastSet, lastWritten>>

\* LocalStorageDemo unmounts: the hook state is discarded, the storage stays.
LocalStorageUnmount ==
    /\ \A key \in StorageKeys : hooks[key].mounted
    /\ hooks' = [key \in StorageKeys |-> Unmounted]
    /\ dirty' = [key \in StorageKeys |-> FALSE]
    /\ UNCHANGED <<localStorage, storageErrors, lastSet, lastWritten>>

\* setValue(value): setStoredValue(value) and then localStorage.setItem(key,
\* JSON.stringify(value)); `writes` tells whether setItem succeeds or throws
\* (storage full or denied), which the catch block only logs.
setValue(key, value, writes) ==
    /\ hooks[key].mounted
    /\ hooks' = [hooks EXCEPT ![key].storedValue = value]
    /\ dirty' = [dirty EXCEPT ![key] = TRUE]
    /\ lastSet' = [lastSet EXCEPT ![key] = [some |-> TRUE, value |-> value]]
    /\ IF writes
          THEN /\ localStorage' = [localStorage EXCEPT ![key] = Item(JSONstringify(value))]
               /\ lastWritten' = [lastWritten EXCEPT ![key] = [some |-> TRUE, value |-> value]]
               /\ UNCHANGED storageErrors
          ELSE /\ storageErrors' = storageErrors \cup {"QuotaExceededError"}
               /\ UNCHANGED <<localStorage, lastWritten>>

-----------------------------------------------------------------------------
(* 09-forms/index.tsx : usePrevious and PreviousDemo                       *)

\* The value of useRef<T>() before any assignment, and a value that was assigned.
Undefined == [defined |-> FALSE]
Def(v) == [defined |-> TRUE, value |-> v]

\* Mutant: the ref is assigned during the render, before it is returned.
usePrevious_AssignsInRender(ref, value) == [returned |-> Def(value), current |-> Def(value)]

\* usePrevious(value), called by a render whose ref holds `ref`: the render
\* returns ref.current as it is, then the effect (no dependency array, so it
\* runs after every committed render) assigns ref.current = value.
usePrevious(ref, value) == [returned |-> ref, current |-> Def(value)]

\* One committed render of PreviousDemo with state `count`, and its effects.
PreviousRender(ref, count) ==
    LET hook == usePrevious(ref, count)
    IN  [mounted |-> TRUE, count |-> count, prevCount |-> hook.returned, ref |-> hook.current]

\* No control of an instance has been activated yet.
NoClick == <<"none", "none">>

CountersInit ==
    /\ previousDemo = Unmounted
    /\ propsVsState = Unmounted
    /\ clicked = NoClick

\* CustomHooksDemo renders <PreviousDemo />: useState(0), useRef() and the first render.
PreviousMount ==
    /\ ~previousDemo.mounted
    /\ previousDemo' = PreviousRender(Undefined, 0)
    /\ clicked' = NoClick
    /\ UNCHANGED propsVsState

\* PreviousDemo unmounts; its state and its ref are discarded.
PreviousUnmount ==
    /\ previousDemo.mounted
    /\ previousDemo' = Unmounted
    /\ clicked' = NoClick
    /\ UNCHANGED propsVsState

\* setCount(next) of PreviousDemo: a state equal to the current one bails out
\* without a committed render, otherwise the component renders with it.
PreviousSetCount(next) ==
    previousDemo' = IF next = previousDemo.count
                        THEN previousDemo
                        ELSE PreviousRender(previousDemo.ref, next)

\* PreviousDemo: onClick={() => setCount(count + 1)}
PreviousIncrement ==
    /\ previousDemo.mounted
    /\ previousDemo.count < MaxCount
    /\ PreviousSetCount(previousDemo.count + 1)
    /\ clicked' = <<"PreviousDemo", "Increment">>
    /\ UNCHANGED propsVsState

\* PreviousDemo: onClick={() => setCount(count - 1)}
PreviousDecrement ==
    /\ previousDemo.mounted
    /\ previousDemo.count > -MaxCount
    /\ PreviousSetCount(previousDemo.count - 1)
    /\ clicked' = <<"PreviousDemo", "Decrement">>
    /\ UNCHANGED propsVsState

\* PreviousDemo: onClick={() => setCount(0)}
PreviousReset ==
    /\ previousDemo.mounted
    /\ PreviousSetCount(0)
    /\ clicked' = <<"PreviousDemo", "Reset">>
    /\ UNCHANGED propsVsState

-----------------------------------------------------------------------------
(* unnamed/part_001 : PropsVsStateExample                                  *)

\* Texts typed into the name input.
NameInputs == {"John", "Jo"}

\* Number(e.target.value) of the age input.
AgeInputs == {25, 26, 0}

\* useState(0), useState('John'), useState(25)
PropsVsStateInitial == [mounted |-> TRUE, count |-> 0, userName |-> "John", userAge |-> 25]

\* What <UserCard name={userName} age={userAge} /> shows.
UserCard == [name |-> propsVsState.userName, age |-> propsVsState.userAge]

PropsVsStateMount ==
    /\ ~propsVsState.mounted
    /\ propsVsState' = PropsVsStateInitial
    /\ clicked' = NoClick
    /\ UNCHANGED previousDemo

PropsVsStateUnmount ==
    /\ propsVsState.mounted
    /\ propsVsState' = Unmounted
    /\ clicked' = NoClick
    /\ UNCHANGED previousDemo

\* Mutant: the handler adds two.
PropsIncrement_ByTwo ==
    /\ propsVsState.mounted
    /\ propsVsState.count < MaxCount
    /\ propsVsState' = [propsVsState EXCEPT !.count = @ + 2]
    /\ clicked' = <<"PropsVsState", "Increment">>
    /\ UNCHANGED previousDemo

\* PropsVsStateExample: onClick={() => setCount(count + 1)}
PropsIncrement ==
    /\ propsVsState.mounted
    /\ propsVsState.count < MaxCount
    /\ propsVsState' = [propsVsState EXCEPT !.count = @ + 1]
    /\ clicked' = <<"PropsVsState", "Increment">>
    /\ UNCHANGED previousDemo

\* PropsVsStateExample: onClick={() => setCount(count - 1)}
PropsDecrement ==
    /\ propsVsState.mounted
    /\ propsVsState.count > -MaxCount
    /\ propsVsState' = [propsVsState EXCEPT !.count = @ - 1]
    /\ clicked' = <<"PropsVsState", "Decrement">>
    /\ UNCHANGED previousDemo

\* PropsVsStateExample: onChange={(e) => setUserName(e.target.value)}
SetUserName(text) ==
    /\ propsVsState.mounted
    /\ propsVsState' = [propsVsState EXCEPT !.userName = text]
    /\ clicked' = NoClick
    /\ UNCHANGED previousDemo

\* PropsVsStateExample: onChange={(e) => setUserAge(Number(e.target.value))}
SetUserAge(n) ==
    /\ propsVsState.mounted
    /\ propsVsState' = [propsVsState EXCEPT !.userAge = n]
    /\ clicked' = NoClick
    /\ UNCHANGED previousDemo

-----------------------------------------------------------------------------
(* 17-routing/ReactRouterConcepts.tsx : how the login page was reached      *)

\* History of the live demo: none of the protected paths.
NotFromProtected == "none"

LoginHistoryInit ==
    /\ cameFrom = NotFromProtected
    /\ loginLinked = FALSE

\* The user reaches or leaves a page; `from` is the protected path whose
\* "Go to Login" link led here, if that is how the user came.
Arrived(from) ==
    /\ cameFrom' = from
    /\ loginLinked' = FALSE

\* A nav-bar link was followed: the Login link followed on the login page
\* keeps the user on the page, any other link leads to another page.
FollowedNavLink(to) ==
    IF to = "/login" /\ location.pathname = "/login"
        THEN /\ loginLinked' = (cameFrom # NotFromProtected)
             /\ UNCHANGED cameFrom
        ELSE Arrived(NotFromProtected)

\* The submission of the login form.
LoginSubmit == <<"LoginPage", "Login">>

-----------------------------------------------------------------------------
(* 14-code-splitting/CodeSplittingDemo.tsx                                 *)

\* The module-level lazy components.
LazyComponents == {"HeavyComponent", "LazyChart", "LazyEditor"}

\* The state of a lazy component's payload: its loader has not been called, its
\* promise is pending, or the promise has settled.
LazyStates == {"uninitialized", "pending", "resolved", "rejected"}

\* useState(false) of BasicLazyExample (show) and MultipleBoundariesExample
\* (showChart, showEditor), by the lazy component each one reveals.
ShowInitial == [c \in LazyComponents |-> FALSE]

\* ErrorHandlingExample: useState(false), useState(false); `load` is the
\* payload state of the FailingComponent of the last render, and retryPending
\* says that the 100 ms timer of handleRetry is running.
ErrorHandlingInitial ==
    [show |-> FALSE, hasError |-> FALSE, load |-> "uninitialized", retryPending |-> FALSE]

CodeSplittingInit ==
    /\ lazyStatus = [c \in LazyComponents |-> "uninitialized"]
    /\ splitShow = ShowInitial
    /\ errorHandling = ErrorHandlingInitial
    /\ staleLoads = 0
    /\ splitCrashed = FALSE

\* What <Suspense fallback={...}><C /></Suspense> shows for a payload state; a
\* rejected payload makes the render of the lazy component throw.
Suspense(status) ==
    CASE status \in {"uninitialized", "pending"} -> "fallback"
      [] status = "resolved"                     -> "component"
      [] status = "rejected"                     -> "throws"

\* What ErrorHandlingExample renders below its button.
ErrorHandlingView(d) ==
    IF d.hasError
        THEN "error-fallback"
        ELSE IF d.show THEN Suspense(d.load) ELSE "nothing"

\* onClick={() => setShow(!show)} of BasicLazyExample, setShowChart and
\* setShowEditor of MultipleBoundariesExample: the first render of the lazy
\* component calls its loader, later ones use the payload the module keeps.
ToggleLazy(c) ==
    /\ ~splitCrashed
    /\ splitShow' = [splitShow EXCEPT ![c] = ~@]
    /\ lazyStatus' = IF ~splitShow[c] /\ lazyStatus[c] = "uninitialized"
                        THEN [lazyStatus EXCEPT ![c] = "pending"]
                        ELSE lazyStatus
    /\ UNCHANGED <<errorHandling, staleLoads, splitCrashed>>

\* The setTimeout of a module-level loader fires: resolve({ default: ... }).
LazyResolves(c) ==
    /\ lazyStatus[c] = "pending"
    /\ lazyStatus' = [lazyStatus EXCEPT ![c] = "resolved"]
    /\ UNCHANGED <<splitShow, errorHandling, staleLoads, splitCrashed>>

\* The payload of the FailingComponent that a render of ErrorHandlingExample
\* with this state creates: lazy() is called in the component body, so every
\* render makes a new lazy component, whose loader runs if it is rendered.
FreshLoad(show, hasError) == IF show /\ ~hasError THEN "pending" ELSE "uninitialized"

\* The loads started by earlier renders that are still pending after a render.
StaleAfterRender == IF errorHandling.load = "pending" THEN staleLoads + 1 ELSE staleLoads

\* onClick={() => setShow(!show)} of ErrorHandlingExample.
ToggleFailing ==
    /\ ~splitCrashed
    /\ StaleAfterRender <= MaxTimers
    /\ errorHandling' = [errorHandling EXCEPT
                            !.show = ~@,
                            !.load = FreshLoad(~errorHandling.show, errorHandling.hasError)]
    /\ staleLoads' = StaleAfterRender
    /\ UNCHANGED <<lazyStatus, splitShow, splitCrashed>>

\* The 1000 ms timer of the rendered FailingComponent fires:
\* reject(new Error('Failed to load component')).  React renders the suspended
\* subtree again and the lazy component throws the error; neither
\* ErrorHandlingExample nor CodeSplittingDemo has an error boundary or calls
\* setHasError(true), so the error leaves the demo module.
LoadRejects ==
    /\ ~splitCrashed
    /\ errorHandling.load = "pending"
    /\ errorHandling' = [errorHandling EXCEPT !.load = "rejected"]
    /\ splitCrashed' = (ErrorHandlingView(errorHandling') = "throws")
    /\ UNCHANGED <<lazyStatus, splitShow, staleLoads>>

\* The timer of a FailingComponent that is no longer rendered fires: its
\* payload becomes rejected and nothing renders it.
StaleLoadRejects ==
    /\ staleLoads > 0
    /\ staleLoads' = staleLoads - 1
    /\ UNCHANGED <<lazyStatus, splitShow, errorHandling, splitCrashed>>

\* handleRetry: setHasError(false); setShow(false); setTimeout(() => setShow(true), 100).
\* Its button is rendered only while hasError is true; no code sets hasError
\* to true, so no behaviour of the demo takes this step or the next one.
handleRetry ==
    /\ ~splitCrashed
    /\ ErrorHandlingView(errorHandling) = "error-fallback"
    /\ errorHandling' = [errorHandling EXCEPT
                            !.hasError = FALSE, !.show = FALSE,
                            !.load = FreshLoad(FALSE, FALSE), !.retryPending = TRUE]
    /\ staleLoads' = StaleAfterRender
    /\ UNCHANGED <<lazyStatus, splitShow, splitCrashed>>

\* The 100 ms timer of handleRetry fires: setShow(true).
RetryTimeout ==
    /\ ~splitCrashed
    /\ errorHandling.retryPending
    /\ errorHandling' = [errorHandling EXCEPT
                            !.show = TRUE,
                            !.load = IF errorHandling.show
                                        THEN @
                                        ELSE FreshLoad(TRUE, errorHandling.hasError),
                            !.retryPending = FALSE]
    /\ staleLoads' = IF errorHandling.show THEN staleLoads ELSE StaleAfterRender
    /\ UNCHANGED <<lazyStatus, splitShow, splitCrashed>>

-----------------------------------------------------------------------------
(* 15-advanced-patterns/AdvancedPatternsDemo.tsx (WindowSize) and          *)
(* 11-refs-and-dom/RefsAndDOM.tsx (MeasureExample)                         *)

\* Most instances of one component mounted one after the other.
MaxMounts == 2

\* Values of { width: window.innerWidth, height: window.innerHeight }.
WindowSizes ==
    {[width |-> 800, height |-> 600], [width |-> 1024, height |-> 768],
     [width |-> 1280, height |-> 720]}

\* The size of the window when the page loads.
InitialWindowSize == [width |-> 1024, height |-> 768]

\* Values of { width: divRef.current.offsetWidth, height: divRef.current.offsetHeight }.
DivSizes == {[width |-> 300, height |-> 120], [width |-> 500, height |-> 96]}

\* A function registered with window.addEventListener('resize', ...): the
\* handleResize or measure closure of one component instance.
Listener(owner, instance) == [owner |-> owner, instance |-> instance]

ResizeInit ==
    /\ innerSize = InitialWindowSize
    /\ resizeListeners = {}
    /\ windowSize = Unmounted
    /\ measureExample = Unmounted
    /\ mounts = [c \in {"WindowSize", "MeasureExample"} |-> 0]

\* WindowSize mounts: useState({ width: window.innerWidth, ... }), and the
\* initialiser passed to the second useState runs during the first render:
\* it adds handleResize and returns the removing function, which becomes the
\* value of that state and is never called.
WindowSizeMount ==
    /\ ~windowSize.mounted
    /\ mounts["WindowSize"] < MaxMounts
    /\ mounts' = [mounts EXCEPT !["WindowSize"] = @ + 1]
    /\ windowSize' = [mounted |-> TRUE, instance |-> mounts'["WindowSize"], size |-> innerSize]
    /\ resizeListeners' = resizeListeners \cup {Listener("WindowSize", mounts'["WindowSize"])}
    /\ UNCHANGED <<innerSize, measureExample>>

\* WindowSize unmounts: it has no effect, so no cleanup runs.
WindowSizeUnmount ==
    /\ windowSize.mounted
    /\ windowSize' = Unmounted
    /\ UNCHANGED <<innerSize, resizeListeners, measureExample, mounts>>

\* measure(): if (divRef.current) setDimensions({ offsetWidth, offsetHeight })
measure(example, div) ==
    IF example.mounted THEN [example EXCEPT !.dimensions = div] ELSE example

\* MeasureExample mounts: useState({ width: 0, height: 0 }), then the effect:
\* measure(); window.addEventListener('resize', measure)
MeasureMount(div) ==
    /\ ~measureExample.mounted
    /\ mounts["MeasureExample"] < MaxMounts
    /\ mounts' = [mounts EXCEPT !["MeasureExample"] = @ + 1]
    /\ measureExample' = measure([mounted |-> TRUE, instance |-> mounts'["MeasureExample"],
                                  dimensions |-> [width |-> 0, height |-> 0]], div)
    /\ resizeListeners' = resizeListeners \cup {Listener("MeasureExample", mounts'["MeasureExample"])}
    /\ UNCHANGED <<innerSize, windowSize>>

\* MeasureExample unmounts: the cleanup of the effect removes the same
\* measure function the effect added.
MeasureUnmount ==
    /\ measureExample.mounted
    /\ measureExample' = Unmounted
    /\ resizeListeners' = resizeListeners \ {Listener("MeasureExample", measureExample.instance)}
    /\ UNCHANGED <<innerSize, windowSize, mounts>>

\* <button onClick={measure}>Re-measure</button>
ReMeasure(div) ==
    /\ measureExample.mounted
    /\ measureExample' = measure(measureExample, div)
    /\ UNCHANGED <<innerSize, resizeListeners, windowSize, mounts>>

\* The window is resized and the resize event calls every registered
\* listener: handleResize sets the size of its own instance, measure reads the
\* div of its own instance; a listener of an instance that has unmounted
\* updates nothing.
Resize(size, div) ==
    /\ size # innerSize
    /\ innerSize' = size
    /\ windowSize' = IF /\ windowSize.mounted
                        /\ Listener("WindowSize", windowSize.instance) \in resizeListeners
                        THEN [windowSize EXCEPT !.size = size]
                        ELSE windowSize
    /\ measureExample' = IF /\ measureExample.mounted
                            /\ Listener("MeasureExample", measureExample.instance) \in resizeListeners
                            THEN measure(measureExample, div)
                            ELSE measureExample
    /\ UNCHANGED <<resizeListeners, mounts>>

-----------------------------------------------------------------------------
(* Composition: the state when the modules have loaded and nothing is      *)
(* mounted, and one specification per demo.                                *)

Init ==
    /\ DocsInit
    /\ StoreInit
    /\ NotifInit
    /\ HooksInit
    /\ AuthInit
    /\ BoundaryInit
    /\ DebounceInit
    /\ LocalStorageInit
    /\ CountersInit
    /\ LoginHistoryInit
    /\ CodeSplittingInit
    /\ ReducerInit
    /\ ResizeInit

\* The same, with the storage holding what earlier sessions left in it.
InitStorage ==
    /\ DocsInit
    /\ StoreInit
    /\ NotifInit
    /\ HooksInit
    /\ AuthInit
    /\ BoundaryInit
    /\ DebounceInit
    /\ LocalStorageInitAny
    /\ CountersInit
    /\ LoginHistoryInit
    /\ CodeSplittingInit
    /\ ReducerInit
    /\ ResizeInit

NextDocs ==
    \/ DocsMount /\ UNCHANGED <<storeVars, notifVars, hooksVars, authVars, boundaryVars, debounceVars, lsVars, counterVars, loginVars, splitVars, reducerVars, resizeVars>>
    \/ \E tab \in DocTabs : SetActiveDoc(tab) /\ UNCHANGED <<storeVars, notifVars, hooksVars, authVars, boundaryVars, debounceVars, lsVars, counterVars, loginVars, splitVars, reducerVars, resizeVars>>
    \/ \E k \in DocKeys : FetchResponse(k) /\ UNCHANGED <<storeVars, notifVars, hooksVars, authVars, boundaryVars, debounceVars, lsVars, counterVars, loginVars, splitVars, reducerVars, resizeVars>>
    \/ \E k \in DocKeys, text \in Bodies : FetchText(k, text) /\ UNCHANGED <<storeVars, notifVars, hooksVars, authVars, boundaryVars, debounceVars, lsVars, counterVars, loginVars, splitVars, reducerVars, resizeVars>>
    \/ \E k \in DocKeys : FetchFail(k) /\ UNCHANGED <<storeVars, notifVars, hooksVars, authVars, boundaryVars, debounceVars, lsVars, counterVars, loginVars, splitVars, reducerVars, resizeVars>>

SpecDocs == Init /\ [][NextDocs]_vars

NextModuleState ==
    \/ StoreDemoMount /\ UNCHANGED <<docsVars, notifVars, hooksVars, authVars, boundaryVars, debounceVars, lsVars, counterVars, loginVars, splitVars, reducerVars, resizeVars>>
    \/ StoreDemoUnmount /\ UNCHANGED <<docsVars, notifVars, hooksVars, authVars, boundaryVars, debounceVars, lsVars, counterVars, loginVars, splitVars, reducerVars, resizeVars>>
    \/ StoreIncrement /\ UNCHANGED <<docsVars, notifVars, hooksVars, authVars, boundaryVars, debounceVars, lsVars, counterVars, loginVars, splitVars, reducerVars, resizeVars>>
    \/ StoreDecrement /\ UNCHANGED <<docsVars, notifVars, hooksVars, authVars, boundaryVars, debounceVars, lsVars, counterVars, loginVars, splitVars, reducerVars, resizeVars>>
    \/ NotifMount /\ UNCHANGED <<docsVars, storeVars, hooksVars, authVars, boundaryVars, debounceVars, lsVars, counterVars, loginVars, splitVars, reducerVars, resizeVars>>
    \/ NotifUnmount /\ UNCHANGED <<docsVars, storeVars, hooksVars, authVars, boundaryVars, debounceVars, lsVars, counterVars, loginVars, splitVars, reducerVars, resizeVars>>
    \/ \E type \in NotificationTypes : addNotification(type) /\ UNCHANGED <<docsVars, storeVars, hooksVars, authVars, boundaryVars, debounceVars, lsVars, counterVars, loginVars, splitVars, reducerVars, resizeVars>>
    \/ \E id \in 0..(MaxNotifications - 1) : NotifTimeout(id) /\ UNCHANGED <<docsVars, storeVars, hooksVars, authVars, boundaryVars, debounceVars, lsVars, counterVars, loginVars, splitVars, reducerVars, resizeVars>>
    \/ \E id \in 0..(MaxNotifications - 1) : StaleTimeout(id) /\ UNCHANGED <<docsVars, storeVars, hooksVars, authVars, boundaryVars, debounceVars, lsVars, counterVars, loginVars, splitVars, reducerVars, resizeVars>>

SpecModuleState == Init /\ [][NextModuleState]_vars

NextHooks ==
    \/ \E id \in DemoIds : SelectDemo(id) /\ UNCHANGED <<docsVars, storeVars, notifVars, authVars, boundaryVars, debounceVars, lsVars, counterVars, loginVars, splitVars, reducerVars, resizeVars>>
    \/ CallbackIncrement /\ UNCHANGED <<docsVars, storeVars, notifVars, authVars, boundaryVars, debounceVars, lsVars, counterVars, loginVars, splitVars, reducerVars, resizeVars>>
    \/ CallbackOther /\ UNCHANGED <<docsVars, storeVars, notifVars, authVars, boundaryVars, debounceVars, lsVars, counterVars, loginVars, splitVars, reducerVars, resizeVars>>
    \/ MemoIncrement /\ UNCHANGED <<docsVars, storeVars, notifVars, authVars, boundaryVars, debounceVars, lsVars, counterVars, loginVars, splitVars, reducerVars, resizeVars>>
    \/ MemoAddItem /\ UNCHANGED <<docsVars, storeVars, notifVars, authVars, boundaryVars, debounceVars, lsVars, counterVars, loginVars, splitVars, reducerVars, resizeVars>>
    \/ MemoToggleTheme /\ UNCHANGED <<docsVars, storeVars, notifVars, authVars, boundaryVars, debounceVars, lsVars, counterVars, loginVars, splitVars, reducerVars, resizeVars>>
    \/ demonstrateEffect /\ UNCHANGED <<docsVars, storeVars, notifVars, authVars, boundaryVars, debounceVars, lsVars, counterVars, loginVars, splitVars, reducerVars, resizeVars>>
    \/ FlickerTimeout /\ UNCHANGED <<docsVars, storeVars, notifVars, authVars, boundaryVars, debounceVars, lsVars, counterVars, loginVars, splitVars, reducerVars, resizeVars>>
    \/ FlickerStaleTimeout /\ UNCHANGED <<docsVars, storeVars, notifVars, authVars, boundaryVars, debounceVars, lsVars, counterVars, loginVars, splitVars, reducerVars, resizeVars>>
    \/ \E checked \in BOOLEAN : SetUseLayout(checked) /\ UNCHANGED <<docsVars, storeVars, notifVars, authVars, boundaryVars, debounceVars, lsVars, counterVars, loginVars, splitVars, reducerVars, resizeVars>>
    \/ SimpleIncrement /\ UNCHANGED <<docsVars, storeVars, notifVars, authVars, boundaryVars, debounceVars, lsVars, counterVars, loginVars, splitVars, reducerVars, resizeVars>>
    \/ SimpleDecrement /\ UNCHANGED <<docsVars, storeVars, notifVars, authVars, boundaryVars, debounceVars, lsVars, counterVars, loginVars, splitVars, reducerVars, resizeVars>>
    \/ SimpleReset /\ UNCHANGED <<docsVars, storeVars, notifVars, authVars, boundaryVars, debounceVars, lsVars, counterVars, loginVars, splitVars, reducerVars, resizeVars>>
    \/ \E action \in CounterActions : Dispatch(action) /\ UNCHANGED <<docsVars, storeVars, notifVars, authVars, boundaryVars, debounceVars, lsVars, counterVars, loginVars, splitVars, reducerVars, resizeVars>>

SpecHooks == Init /\ [][NextHooks]_vars

NextAuth ==
    \/ \E to \in RoutePaths : ClickNavLink(to) /\ UNCHANGED <<docsVars, storeVars, notifVars, hooksVars, boundaryVars, debounceVars, lsVars, counterVars, loginVars, splitVars, reducerVars, resizeVars>>
    \/ ClickGoToLogin /\ UNCHANGED <<docsVars, storeVars, notifVars, hooksVars, boundaryVars, debounceVars, lsVars, counterVars, loginVars, splitVars, reducerVars, resizeVars>>
    \/ \E text \in UsernameInputs : TypeUsername(text) /\ UNCHANGED <<docsVars, storeVars, notifVars, hooksVars, boundaryVars, debounceVars, lsVars, counterVars, loginVars, splitVars, reducerVars, resizeVars>>
    \/ handleLogin /\ UNCHANGED <<docsVars, storeVars, notifVars, hooksVars, boundaryVars, debounceVars, lsVars, counterVars, loginVars, splitVars, reducerVars, resizeVars>>
    \/ ClickContinue /\ UNCHANGED <<docsVars, storeVars, notifVars, hooksVars, boundaryVars, debounceVars, lsVars, counterVars, loginVars, splitVars, reducerVars, resizeVars>>
    \/ AdminLogout /\ UNCHANGED <<docsVars, storeVars, notifVars, hooksVars, boundaryVars, debounceVars, lsVars, counterVars, loginVars, splitVars, reducerVars, resizeVars>>
    \/ ProfileLogout /\ UNCHANGED <<docsVars, storeVars, notifVars, hooksVars, boundaryVars, debounceVars, lsVars, counterVars, loginVars, splitVars, reducerVars, resizeVars>>
    \/ CommitNavigation /\ UNCHANGED <<docsVars, storeVars, notifVars, hooksVars, boundaryVars, debounceVars, lsVars, counterVars, loginVars, splitVars, reducerVars, resizeVars>>

SpecAuth == Init /\ [][NextAuth]_vars

NextBoundary ==
    \/ ToggleError /\ UNCHANGED <<docsVars, storeVars, notifVars, hooksVars, authVars, debounceVars, lsVars, counterVars, loginVars, splitVars, reducerVars, resizeVars>>
    \/ TryAgain /\ UNCHANGED <<docsVars, storeVars, notifVars, hooksVars, authVars, debounceVars, lsVars, counterVars, loginVars, splitVars, reducerVars, resizeVars>>
    \/ \E b \in CounterBoundaries : CounterIncrement(b) /\ UNCHANGED <<docsVars, storeVars, notifVars, hooksVars, authVars, debounceVars, lsVars, counterVars, loginVars, splitVars, reducerVars, resizeVars>>
    \/ \E b \in CounterBoundaries : ResetBoundary(b) /\ UNCHANGED <<docsVars, storeVars, notifVars, hooksVars, authVars, debounceVars, lsVars, counterVars, loginVars, splitVars, reducerVars, resizeVars>>
    \/ ClearLog /\ UNCHANGED <<docsVars, storeVars, notifVars, hooksVars, authVars, debounceVars, lsVars, counterVars, loginVars, splitVars, reducerVars, resizeVars>>
    \/ \E b \in Boundaries : RenderSubtree(b) /\ UNCHANGED <<docsVars, storeVars, notifVars, hooksVars, authVars, debounceVars, lsVars, counterVars, loginVars, splitVars, reducerVars, resizeVars>>

SpecBoundary == Init /\ [][NextBoundary]_vars

NextDebounce ==
    \/ \E c \in Alphabet : TypeChar(c) /\ UNCHANGED <<docsVars, storeVars, notifVars, hooksVars, authVars, boundaryVars, lsVars, counterVars, loginVars, splitVars, reducerVars, resizeVars>>
    \/ Backspace /\ UNCHANGED <<docsVars, storeVars, notifVars, hooksVars, authVars, boundaryVars, lsVars, counterVars, loginVars, splitVars, reducerVars, resizeVars>>
    \/ \E ms \in Pauses \cup {t.remaining : t \in timers} : Wait(ms) /\ UNCHANGED <<docsVars, storeVars, notifVars, hooksVars, authVars, boundaryVars, lsVars, counterVars, loginVars, splitVars, reducerVars, resizeVars>>
    \/ \E t \in timers : TimerFires(t) /\ UNCHANGED <<docsVars, storeVars, notifVars, hooksVars, authVars, boundaryVars, lsVars, counterVars, loginVars, splitVars, reducerVars, resizeVars>>

SpecDebounce == Init /\ [][NextDebounce]_vars

NextLocalStorage ==
    \/ LocalStorageMount /\ UNCHANGED <<docsVars, storeVars, notifVars, hooksVars, authVars, boundaryVars, debounceVars, counterVars, loginVars, splitVars, reducerVars, resizeVars>>
    \/ LocalStorageUnmount /\ UNCHANGED <<docsVars, storeVars, notifVars, hooksVars, authVars, boundaryVars, debounceVars, counterVars, loginVars, splitVars, reducerVars, resizeVars>>
    \/ \E key \in StorageKeys : \E value \in Values(key), writes \in BOOLEAN :
            setValue(key, value, writes) /\ UNCHANGED <<docsVars, storeVars, notifVars, hooksVars, authVars, boundaryVars, debounceVars, counterVars, loginVars, splitVars, reducerVars, resizeVars>>

SpecLocalStorage == InitStorage /\ [][NextLocalStorage]_vars

\* The plain counters: PreviousDemo, PropsVsStateExample and the simple counter
\* of UseStateVsReducer (reached by selecting it in HooksDeepDive).
NextCounters ==
    \/ PreviousMount /\ UNCHANGED <<docsVars, storeVars, notifVars, hooksVars, authVars, boundaryVars, debounceVars, lsVars, loginVars, splitVars, reducerVars, resizeVars>>
    \/ PreviousUnmount /\ UNCHANGED <<docsVars, storeVars, notifVars, hooksVars, authVars, boundaryVars, debounceVars, lsVars, loginVars, splitVars, reducerVars, resizeVars>>
    \/ PreviousIncrement /\ UNCHANGED <<docsVars, storeVars, notifVars, hooksVars, authVars, boundaryVars, debounceVars, lsVars, loginVars, splitVars, reducerVars, resizeVars>>
    \/ PreviousDecrement /\ UNCHANGED <<docsVars, storeVars, notifVars, hooksVars, authVars, boundaryVars, debounceVars, lsVars, loginVars, splitVars, reducerVars, resizeVars>>
    \/ PreviousReset /\ UNCHANGED <<docsVars, storeVars, notifVars, hooksVars, authVars, boundaryVars, debounceVars, lsVars, loginVars, splitVars, reducerVars, resizeVars>>
    \/ PropsVsStateMount /\ UNCHANGED <<docsVars, storeVars, notifVars, hooksVars, authVars, boundaryVars, debounceVars, lsVars, loginVars, splitVars, reducerVars, resizeVars>>
    \/ PropsVsStateUnmount /\ UNCHANGED <<docsVars, storeVars, notifVars, hooksVars, authVars, boundaryVars, debounceVars, lsVars, loginVars, splitVars, reducerVars, resizeVars>>
    \/ PropsIncrement /\ UNCHANGED <<docsVars, storeVars, notifVars, hooksVars, authVars, boundaryVars, debounceVars, lsVars, loginVars, splitVars, reducerVars, resizeVars>>
    \/ PropsDecrement /\ UNCHANGED <<docsVars, storeVars, notifVars, hooksVars, authVars, boundaryVars, debounceVars, lsVars, loginVars, splitVars, reducerVars, resizeVars>>
    \/ \E text \in NameInputs : SetUserName(text) /\ UNCHANGED <<docsVars, storeVars, notifVars, hooksVars, authVars, boundaryVars, debounceVars, lsVars, loginVars, splitVars, reducerVars, resizeVars>>
    \/ \E n \in AgeInputs : SetUserAge(n) /\ UNCHANGED <<docsVars, storeVars, notifVars, hooksVars, authVars, boundaryVars, debounceVars, lsVars, loginVars, splitVars, reducerVars, resizeVars>>
    \/ \E id \in DemoIds : SelectDemo(id) /\ clicked' = NoClick /\ UNCHANGED <<previousDemo, propsVsState>> /\ UNCHANGED <<docsVars, storeVars, notifVars, authVars, boundaryVars, debounceVars, lsVars, loginVars, splitVars, reducerVars, resizeVars>>
    \/ SimpleIncrement /\ clicked' = <<"UseStateVsReducer", "+1">> /\ UNCHANGED <<previousDemo, propsVsState>> /\ UNCHANGED <<docsVars, storeVars, notifVars, authVars, boundaryVars, debounceVars, lsVars, loginVars, splitVars, reducerVars, resizeVars>>
    \/ SimpleDecrement /\ clicked' = <<"UseStateVsReducer", "-1">> /\ UNCHANGED <<previousDemo, propsVsState>> /\ UNCHANGED <<docsVars, storeVars, notifVars, authVars, boundaryVars, debounceVars, lsVars, loginVars, splitVars, reducerVars, resizeVars>>
    \/ SimpleReset /\ clicked' = <<"UseStateVsReducer", "Reset">> /\ UNCHANGED <<previousDemo, propsVsState>> /\ UNCHANGED <<docsVars, storeVars, notifVars, authVars, boundaryVars, debounceVars, lsVars, loginVars, splitVars, reducerVars, resizeVars>>

SpecCounters == Init /\ [][NextCounters]_vars

\* The protected-routes demo with the history of how the login page was reached.
NextLogin ==
    \/ \E to \in RoutePaths : ClickNavLink(to) /\ FollowedNavLink(to) /\ clicked' = NoClick /\ UNCHANGED <<previousDemo, propsVsState>> /\ UNCHANGED <<docsVars, storeVars, notifVars, hooksVars, boundaryVars, debounceVars, lsVars, splitVars, reducerVars, resizeVars>>
    \/ ClickGoToLogin /\ Arrived(location.pathname) /\ clicked' = NoClick /\ UNCHANGED <<previousDemo, propsVsState>> /\ UNCHANGED <<docsVars, storeVars, notifVars, hooksVars, boundaryVars, debounceVars, lsVars, splitVars, reducerVars, resizeVars>>
    \/ \E text \in UsernameInputs : TypeUsername(text) /\ clicked' = NoClick /\ UNCHANGED loginVars /\ UNCHANGED <<previousDemo, propsVsState>> /\ UNCHANGED <<docsVars, storeVars, notifVars, hooksVars, boundaryVars, debounceVars, lsVars, splitVars, reducerVars, resizeVars>>
    \/ handleLogin /\ clicked' = LoginSubmit /\ UNCHANGED loginVars /\ UNCHANGED <<previousDemo, propsVsState>> /\ UNCHANGED <<docsVars, storeVars, notifVars, hooksVars, boundaryVars, debounceVars, lsVars, splitVars, reducerVars, resizeVars>>
    \/ ClickContinue /\ Arrived(NotFromProtected) /\ clicked' = NoClick /\ UNCHANGED <<previousDemo, propsVsState>> /\ UNCHANGED <<docsVars, storeVars, notifVars, hooksVars, boundaryVars, debounceVars, lsVars, splitVars, reducerVars, resizeVars>>
    \/ AdminLogout /\ Arrived(NotFromProtected) /\ clicked' = NoClick /\ UNCHANGED <<previousDemo, propsVsState>> /\ UNCHANGED <<docsVars, storeVars, notifVars, hooksVars, boundaryVars, debounceVars, lsVars, splitVars, reducerVars, resizeVars>>
    \/ ProfileLogout /\ Arrived(NotFromProtected) /\ clicked' = NoClick /\ UNCHANGED <<previousDemo, propsVsState>> /\ UNCHANGED <<docsVars, storeVars, notifVars, hooksVars, boundaryVars, debounceVars, lsVars, splitVars, reducerVars, resizeVars>>
    \/ CommitNavigation /\ UNCHANGED <<clicked, loginVars>> /\ UNCHANGED <<previousDemo, propsVsState>> /\ UNCHANGED <<docsVars, storeVars, notifVars, hooksVars, boundaryVars, debounceVars, lsVars, splitVars, reducerVars, resizeVars>>

SpecLogin == Init /\ [][NextLogin]_vars

\* The examples of CodeSplittingDemo.  handleRetry and RetryTimeout are left
\* out: the Retry button is never rendered.
NextCodeSplitting ==
    \/ \E c \in LazyComponents : ToggleLazy(c) /\ UNCHANGED <<docsVars, storeVars, notifVars, hooksVars, authVars, boundaryVars, debounceVars, lsVars, counterVars, loginVars, reducerVars, resizeVars>>
    \/ \E c \in LazyComponents : LazyResolves(c) /\ UNCHANGED <<docsVars, storeVars, notifVars, hooksVars, authVars, boundaryVars, debounceVars, lsVars, counterVars, loginVars, reducerVars, resizeVars>>
    \/ ToggleFailing /\ UNCHANGED <<docsVars, storeVars, notifVars, hooksVars, authVars, boundaryVars, debounceVars, lsVars, counterVars, loginVars, reducerVars, resizeVars>>
    \/ LoadRejects /\ UNCHANGED <<docsVars, storeVars, notifVars, hooksVars, authVars, boundaryVars, debounceVars, lsVars, counterVars, loginVars, reducerVars, resizeVars>>
    \/ StaleLoadRejects /\ UNCHANGED <<docsVars, storeVars, notifVars, hooksVars, authVars, boundaryVars, debounceVars, lsVars, counterVars, loginVars, reducerVars, resizeVars>>

SpecCodeSplitting == Init /\ [][NextCodeSplitting]_vars

NextReducer ==
    \E action \in CounterActions : ReducerStep(action) /\ UNCHANGED <<docsVars, storeVars, notifVars, hooksVars, authVars, boundaryVars, debounceVars, lsVars, counterVars, loginVars, splitVars, resizeVars>>

SpecReducer == Init /\ [][NextReducer]_vars

NextResize ==
    \/ WindowSizeMount /\ UNCHANGED <<docsVars, storeVars, notifVars, hooksVars, authVars, boundaryVars, debounceVars, lsVars, counterVars, loginVars, splitVars, reducerVars>>
    \/ WindowSizeUnmount /\ UNCHANGED <<docsVars, storeVars, notifVars, hooksVars, authVars, boundaryVars, debounceVars, lsVars, counterVars, loginVars, splitVars, reducerVars>>
    \/ \E div \in DivSizes : MeasureMount(div) /\ UNCHANGED <<docsVars, storeVars, notifVars, hooksVars, authVars, boundaryVars, debounceVars, lsVars, counterVars, loginVars, splitVars, reducerVars>>
    \/ MeasureUnmount /\ UNCHANGED <<docsVars, storeVars, notifVars, hooksVars, authVars, boundaryVars, debounceVars, lsVars, counterVars, loginVars, splitVars, reducerVars>>
    \/ \E div \in DivSizes : ReMeasure(div) /\ UNCHANGED <<docsVars, storeVars, notifVars, hooksVars, authVars, boundaryVars, debounceVars, lsVars, counterVars, loginVars, splitVars, reducerVars>>
    \/ \E size \in WindowSizes, div \in DivSizes : Resize(size, div) /\ UNCHANGED <<docsVars, storeVars, notifVars, hooksVars, authVars, boundaryVars, debounceVars, lsVars, counterVars, loginVars, splitVars, reducerVars>>

SpecResize == Init /\ [][NextResize]_vars

Next ==
    \/ NextResize
    \/ NextReducer
    \/ NextCodeSplitting
    \/ NextLogin
    \/ NextCounters
    \/ NextLocalStorage
    \/ NextDocs
    \/ NextModuleState
    \/ NextHooks
    \/ NextAuth
    \/ NextBoundary
    \/ NextDebounce

Spec == Init /\ [][Next]_vars

-----------------------------------------------------------------------------
(* Properties                                                              *)

Logged(msg) == \E i \in 1..Len(consoleErrors) : consoleErrors[i] = msg

\* C1 (as stated): once a document's fetch has failed, the failure is logged and
\* its loading flag stays true, so the viewer shows the loading message for it.
C1_LoadingForeverAfterFailure ==
    \A k \in DocKeys :
        fetches[k] = "failed" =>
            /\ Logged(DocErrorMessage(k))
            /\ loading[k]
            /\ DocView(k).view = "loading"

\* C1 (amended): once a document's fetch has failed, the failure is logged and
\* its loading flag is false, so whenever that document is the active tab the
\* viewer shows the rendered-content view with empty content, never the loading
\* message (and there is no separate error view).
C1_EmptyContentAfterFailure ==
    \A k \in DocKeys :
        fetches[k] = "failed" =>
            /\ Logged(DocErrorMessage(k))
            /\ ~loading[k]
            /\ DocView(k) = [view |-> "markdown", text |-> ""]
            /\ (TabKey(activeDoc) = k => DocsContent = [view |-> "markdown", text |-> ""])

C1_Witness ==
    \E k \in DocKeys :
        /\ fetches[k] = "failed"
        /\ TabKey(activeDoc) = k
        /\ \E j \in DocKeys : fetches[j] = "done" /\ contents[j] # ""

\* C2: for each document, while the viewer is mounted and that document's fetch
\* has not completed, its loading flag is true and the viewer shows the loading
\* indicator (never rendered content) whenever it is the active tab.
C2_LoadingUntilOwnFetchCompletes ==
    \A k \in DocKeys :
        (docsMounted /\ fetches[k] \in {"pending", "body"}) =>
            /\ loading[k]
            /\ DocView(k) = [view |-> "loading", text |-> LoadingText(k)]
            /\ (TabKey(activeDoc) = k => DocsContent.view = "loading")

C2_Witness ==
    \E k, j \in DocKeys :
        /\ TabKey(activeDoc) = k
        /\ fetches[k] = "body"
        /\ fetches[j] = "done" /\ contents[j] # ""
        /\ \E i \in DocKeys : fetches[i] = "failed"

\* C3: exactly one fetch per fixed path is issued, at mount; no tab switch and no
\* failed fetch ever issues another.
C3_ThreeFetchesAtMountOnly ==
    /\ docsMounted => \A p \in DocPaths : requests[p] = 1
    /\ ~docsMounted => \A p \in DocPaths : requests[p] = 0
    /\ Cardinality(DocPaths) = Cardinality(DocKeys)

C3_Witness ==
    /\ docsMounted
    /\ activeDoc = "readme"
    /\ \E k \in DocKeys : fetches[k] = "failed"
    /\ \A p \in DocPaths : requests[p] = 1

StoreMountStep == ~storeDemo.mounted /\ storeDemo'.mounted

NotifMountStep == ~notifManager.mounted /\ notifManager'.mounted

\* C4 (as stated): every fresh mount of a demo shows its initial state; the
\* external-store counter shows Count 0 and the notification list is empty.
C4_FreshMountShowsInitialState ==
    [][ /\ (StoreMountStep => storeDemo'.value = 0)
        /\ (NotifMountStep => notifManager'.notifications = <<>>) ]_vars

\* C4 (amended): state held in component hooks is initial on every fresh mount
\* (the notification list is empty), but the external-store counter's count is
\* held by the module-level store: a fresh mount shows the count the previous
\* instance showed when it unmounted (0 before any change), and the module-level
\* notificationId is not reset by a mount either.
C4_ModuleLevelStateSurvivesRemount ==
    [][ /\ (StoreMountStep => storeDemo'.value = storeLeft /\ storeDemo'.value = externalValue)
        /\ (NotifMountStep => notifManager'.notifications = <<>> /\ notificationId' = notificationId)
        /\ (~storeDemo.mounted => externalValue' = externalValue) ]_vars

C4_Witness ==
    /\ storeLeft # 0
    /\ storeDemo.mounted
    /\ storeDemo.value = storeLeft
    /\ notificationId > 0
    /\ staleTimers # {}
    /\ notifManager.mounted
    /\ notifManager.notifications = <<>>

\* C5: in the hooks deep-dive switcher, selecting another demo mounts it with
\* its initial state (so returning to a demo shows it reset), only the active
\* demo has any state, and no step changes the state of a demo other than the
\* active one.
C5_NoStateAcrossDemoSwitch ==
    [][ /\ (activeDemo' # activeDemo => demos'[activeDemo'] = InitialState(activeDemo'))
        /\ (\A d \in DemoIds : d # activeDemo' => demos'[d] = Unmounted)
        /\ (activeDemo' = activeDemo =>
                \A d \in DemoIds : d # activeDemo => demos'[d] = demos[d]) ]_vars

\* The effect demo is mounted again in its initial state while a timer started
\* by an earlier, modified instance of it is still pending.
C5_Witness ==
    /\ activeDemo = "effect-layout"
    /\ flickerStale > 0
    /\ demos["effect-layout"] = EffectInitial
    /\ \A d \in DemoIds : d # activeDemo => demos[d] = Unmounted

\* C6: in every reachable combination of current path and auth state, also in
\* the render between logout() and the navigation that follows it, the content
\* of AdminPage or ProfilePage is shown only while user is non-null.
C6_ProtectedContentOnlyWhenLoggedIn ==
    /\ Shown \in {"AdminPage", "ProfilePage"} => (~user.null /\ Truthy(user))
    /\ \A e \in RoutePaths :
          RouteElement(e, user) \in {"AdminPage", "ProfilePage"} => ~user.null

\* Right after logout: user is null, the path is still the protected one.
C6_Witness ==
    /\ user = Null
    /\ pendingNav # NoNav
    /\ location.pathname \in ProtectedPaths
    /\ Shown = "AccessDenied"

\* State held outside the boundaries.
OutsideBoundaries == <<shouldThrow, resetKeys, errors>>

\* The next render is the one of boundary b's subtree and a child throws in it.
ThrowAt(b) == renderQueue = b /\ ChildThrows(b)

\* What C7 says of every throw apart from the state outside the boundary: the
\* boundary enters its error state, shows the fallback and not its children,
\* nothing propagates to the root, and no other boundary is affected.
Contained(b) ==
    /\ boundary'[b] = [hasError |-> TRUE, error |-> ChildError(b)]
    /\ BoundaryRender(b)'.view \in {"fallback", "default-fallback"}
    /\ ~uncaught'
    /\ \A c \in Boundaries \ {b} : boundary'[c] = boundary[c]
    /\ \A c \in CounterBoundaries \ {b} : counts'[c] = counts[c]

\* C7 (as stated): when a nested component throws during render the enclosing
\* ErrorBoundary enters its error state and renders the fallback, the throw
\* does not propagate, and state held outside the boundary is unchanged.
C7_ThrowLeavesOutsideStateUnchanged ==
    [][ \A b \in Boundaries :
            ThrowAt(b) => Contained(b) /\ OutsideBoundaries' = OutsideBoundaries ]_vars

\* C7 (amended): as stated, except that the boundary of ErrorLoggingExample
\* passes onError, so a throw caught by it appends the error message to the
\* errors state held outside the boundary; all other outside state, and all
\* outside state for the other boundaries, is unchanged.
C7_ThrowContainedAndLogged ==
    [][ \A b \in Boundaries :
            ThrowAt(b) =>
                /\ Contained(b)
                /\ shouldThrow' = shouldThrow
                /\ resetKeys' = resetKeys
                /\ errors' = IF b = "logging" THEN Append(errors, ChildError(b)) ELSE errors ]_vars

C7_Witness ==
    /\ renderQueue = "none"
    /\ boundary["example"].hasError /\ shouldThrow
    /\ boundary["logging"].hasError /\ Len(errors) > 0
    /\ boundary["multi1"].hasError
    /\ ~boundary["multi2"].hasError /\ counts["multi2"] > 0
    /\ ~uncaught

\* C8: while input changes follow each other within the delay the debounced
\* value is not updated and no search is counted; it is updated exactly once
\* per burst, one delay after the last change and to the last value; and a
\* burst that only typed characters (a five-character word, say) raises
\* "API Calls Made" by exactly one.
C8_DebouncedOncePerBurst ==
    /\ Cardinality(timers) <= 1
    /\ timers # {} =>
            /\ burstUpdates = 0
            /\ searchCount = callsAtStart
            /\ \A t \in timers : t.value = searchTerm /\ t.remaining = Delay - elapsed
    /\ timers = {} =>
            /\ burstUpdates = 1
            /\ debouncedValue = searchTerm
            /\ elapsed = Delay
            /\ searchCount \in {callsAtStart, callsAtStart + 1}
            /\ burstTyped >= 1 => searchCount = callsAtStart + 1

\* A five-character word typed in one burst has been debounced.
C8_Witness ==
    /\ timers = {}
    /\ burstTyped = 5
    /\ Len(debouncedValue) = 5
    /\ searchCount = callsAtStart + 1

\* The hook of `key` is a fresh instance: mounted, and setValue not yet called on it.
Fresh(key) == hooks[key].mounted /\ ~dirty[key]

C10_StateAndStorageInSync ==
    \A key \in StorageKeys :
        (hooks[key].mounted /\ dirty[key]) =>
            /\ localStorage[key].present
            /\ JSONparse(localStorage[key].text) = [ok |-> TRUE, value |-> hooks[key].storedValue]

-----------------------------------------------------------------------------
\* C11: usePrevious returns undefined on the first render and the value of the
\* previous render afterwards: the Previous line of PreviousDemo has no value when
\* the demo mounts, shows after every change of count the count that was shown
\* before that change, and stays as it is while count does not change.
C11_PreviousShowsCountBeforeChange ==
    [][/\ (~previousDemo.mounted /\ previousDemo'.mounted) =>
              previousDemo'.prevCount = Undefined
       /\ (previousDemo.mounted /\ previousDemo'.mounted) =>
              previousDemo'.prevCount =
                  IF previousDemo'.count # previousDemo.count
                      THEN Def(previousDemo.count)
                      ELSE previousDemo.prevCount]_vars

\* After the second change of count (0 to 1 by Increment, 1 to 0 by Reset),
\* Previous shows 1.
C11_Witness ==
    /\ previousDemo.mounted
    /\ previousDemo.count = 0
    /\ previousDemo.prevCount = Def(1)
    /\ previousDemo.ref = Def(0)
    /\ clicked = <<"PreviousDemo", "Reset">>

\* The simple counter of UseStateVsReducer, or 0 while it is not mounted.
SimpleCount(d) == IF d["state-reducer"].mounted THEN d["state-reducer"].simpleCount ELSE 0

\* C12: in the plain counter demos every activation of the increment control
\* raises the displayed count by exactly one, whatever controls were activated
\* before.
C12_IncrementRaisesCountByOne ==
    [][/\ clicked' = <<"PreviousDemo", "Increment">> =>
              previousDemo'.count = previousDemo.count + 1
       /\ clicked' = <<"PropsVsState", "Increment">> =>
              propsVsState'.count = propsVsState.count + 1
       /\ clicked' = <<"UseStateVsReducer", "+1">> =>
              SimpleCount(demos') = SimpleCount(demos) + 1]_vars

\* Each of the three counters was incremented after a decrement: the last
\* activation took PreviousDemo from -1 to 0.
C12_Witness ==
    /\ clicked = <<"PreviousDemo", "Increment">>
    /\ previousDemo.mounted /\ previousDemo.count = 0 /\ previousDemo.prevCount = Def(-1)
    /\ propsVsState.mounted /\ propsVsState.count = 1
    /\ demos["state-reducer"].mounted /\ demos["state-reducer"].simpleCount = 1

\* C13: the three fetches are independent under every interleaving: a step
\* changes the content or the loading flag of a document only if it is a step
\* of that document's own fetch chain, so no completion touches another
\* document's stored content, and a loading flag that is false stays false.
C13_FetchesIndependent ==
    [][\A k \in DocKeys :
          /\ fetches'[k] = fetches[k] =>
                  contents'[k] = contents[k] /\ loading'[k] = loading[k]
          /\ ~loading[k] => ~loading'[k]]_vars

\* README completed first, then the interview questions; the quick reference
\* failed after both: the two stored contents are still there.
C13_Witness ==
    /\ fetches = [interview |-> "done", quickRef |-> "failed", readme |-> "done"]
    /\ contents = [interview |-> "# Title", quickRef |-> "", readme |-> "plain text"]
    /\ loading = [k \in DocKeys |-> FALSE]
    /\ consoleErrors = <<DocErrorMessage("quickRef")>>

\* C14 (as stated): an unauthenticated user who navigates to /admin or /profile
\* is redirected, so once the navigation has settled the current path of a
\* user who is not logged in is never a protected path.
C14_UnauthenticatedRedirectedToLogin ==
    (pendingNav = NoNav /\ ~Truthy(user)) => location.pathname \notin ProtectedPaths

\* Where a login leads when the user came through "Go to Login".
CameFromTarget == IF cameFrom = NotFromProtected THEN "/admin" ELSE cameFrom

\* Where a login leads when the current login entry was made by "Go to Login".
EntryTarget == IF cameFrom = NotFromProtected \/ loginLinked THEN "/admin" ELSE cameFrom

\* A submission with a non-blank username logs in with the trimmed username and
\* the navigation that follows replaces the login entry by `target`; a blank
\* submission changes neither user nor the history.
LoginOutcome(target) ==
    /\ (pendingNav = NoNav /\ clicked' = LoginSubmit) =>
          IF Trim(username) # <<>>
              THEN /\ user' = Str(Trim(username))
                   /\ pendingNav' = [pending |-> TRUE, to |-> target, replace |-> TRUE]
                   /\ entries' = entries
              ELSE /\ user' = user
                   /\ entries' = entries
                   /\ pendingNav' = NoNav
    /\ (clicked = LoginSubmit /\ pendingNav # NoNav) =>
          /\ location'.pathname = target
          /\ Len(entries') = Len(entries)
          /\ user' = user
          /\ pendingNav' = NoNav

\* C15 (as stated): a login with a non-blank username navigates to the protected
\* path from which the user came to the login page via "Go to Login", or to
\* /admin when the user did not come that way; a blank one changes nothing.
C15_LoginReturnsToCameFrom == [][LoginOutcome(CameFromTarget)]_vars

\* C15 (amended): the same, except that following the Login nav link while on
\* the login page forgets the path the user came from, and the login then
\* leads to /admin.
C15_LoginReturnsToEntryFrom == [][LoginOutcome(EntryTarget)]_vars

\* Denied at /profile, "Go to Login", typed " b ", submitted: logged in as "b"
\* and back on /profile, which replaced the login entry.
C15_Witness ==
    /\ clicked = LoginSubmit
    /\ pendingNav = NoNav
    /\ cameFrom = "/profile" /\ ~loginLinked
    /\ user = Str(<<"b">>)
    /\ Shown = "ProfilePage"
    /\ \A i \in 1..Len(entries) : entries[i].pathname # "/login"

\* C16 (as stated): when the load of the failing component rejects, hasError
\* becomes true and the demo shows its 'Failed to load component' fallback;
\* clearing the fallback (Retry) starts another attempt to load.
C16_RejectionShowsFallbackAndRetryReloads ==
    [][/\ (errorHandling.load = "pending" /\ errorHandling'.load = "rejected") =>
              /\ errorHandling'.hasError
              /\ ErrorHandlingView(errorHandling') = "error-fallback"
              /\ ~splitCrashed'
       /\ (errorHandling.hasError /\ ~errorHandling'.hasError) =>
              /\ ErrorHandlingView(errorHandling') # "error-fallback"
              /\ errorHandling'.retryPending]_vars

\* What the code does instead: the fallback with the Retry button is never shown.
FallbackNeverShown ==
    /\ ~errorHandling.hasError
    /\ ErrorHandlingView(errorHandling) # "error-fallback"
    /\ ~errorHandling.retryPending

\* C17: in every state that counterReducer reaches from the initial state by
\* increment, decrement, setStep, reset and undo actions, history is not empty
\* and its last element is count.
C17_HistoryEndsWithCount ==
    /\ Len(reducerState.history) >= 1
    /\ reducerState.history[Len(reducerState.history)] = reducerState.count

\* Step 2, two increments, an undo back to 2, step -1 and a decrement:
\* history 0, 2, 3 and count 3.
C17_Witness ==
    /\ reducerState.history = <<0, 2, 3>>
    /\ reducerState.count = 3
    /\ reducerState.step = -1

\* The component instance a listener belongs to is mounted.
OwnerMounted(l) ==
    CASE l.owner = "WindowSize" ->
            windowSize.mounted /\ windowSize.instance = l.instance
      [] l.owner = "MeasureExample" ->
            measureExample.mounted /\ measureExample.instance = l.instance

\* C18 (as stated): every resize listener that WindowSize or MeasureExample
\* registers is removed when the instance unmounts, so every listener
\* registered on the window belongs to an instance that is mounted.
C18_ListenersRemovedOnUnmount ==
    \A l \in resizeListeners : OwnerMounted(l)

====
